---- MODULE Spec2Model ----
(***************************************************************************)
(* The WWAN session multiplexer of the IOSM driver (iosm_ipc_wwan): the    *)
(* VLAN session table (vlan_devs, vlan_devs_nr, if_mutex), add/remove of   *)
(* VLAN ids, the lock-free lookup and the transmit path that uses it.      *)
(*                                                                         *)
(* Granularity.  add and remove change the table under if_mutex, but the   *)
(* lookup (ipc_wwan_get_vlan_devs_nr) and ipc_wwan_transmit read it        *)
(* without any lock, and ipc_wwan_remove_vlan looks its slot up before it  *)
(* takes the mutex.  Every shared-memory write is therefore its own step:  *)
(* one step per loop iteration of the lookup and of the compaction loop    *)
(* (the memcpy of one struct ipc_vlan_info is taken as one step).          *)
(* Spec interleaves the contexts at that granularity; SeqSpec runs the     *)
(* same steps with one operation at a time, which gives the sequential     *)
(* meaning of each operation, and keeps a snapshot of the state the        *)
(* operation started in.                                                   *)
(*                                                                         *)
(* Memory outside the table.  vlan_devs holds max_devs entries.  The code  *)
(* can index it at max_devs and beyond (add has no capacity check, the     *)
(* compaction loop reads slot i + 1).  Such an access is undefined: the    *)
(* model keeps the cells behind the table (indices max_devs..MemTop), a    *)
(* write there is stored, a read there returns what was stored or any      *)
(* entry of ForeignEntries (the memory belongs to someone else), and oob   *)
(* records that the access happened.                                       *)
(*                                                                         *)
(* Other parts.  The statistics (ipc_wwan_update_stats) are plain ++ and   *)
(* += without a lock, so each statement is a read step and a write step;   *)
(* ipc_wwan_receive runs them before it delivers.  ipc_wwan_deinit is      *)
(* modelled with the host stack giving back every vid while the device is  *)
(* unregistered.  The task queue (ipc_task_queue_send_task and the tasklet *)
(* handler) is a ring of IPC_THREAD_QUEUE_SIZE elements: the enqueue is    *)
(* one step under q_lock, the handler reads and advances without it;       *)
(* ipc_task_queue_deinit drains it one element per step.  The SIO and MBIM *)
(* character devices share one model of fop_open and fop_release: the      *)
(* test_and_set_bit of IS_OPEN, the channel open and the attach of the     *)
(* open-file object are steps of their own.                                *)
(***************************************************************************)
EXTENDS Integers, Sequences, FiniteSets, TLC

\* ------------------------------------------------------------- bounds
\* max_sessions, the argument of ipc_wwan_init
MaxSessions == 2
\* how many entries past the end of the table the model lets add write
MaxOverflow == 1
\* channel ids the transport can hand out: 0..NumChannels-1
NumChannels == 4
\* how many calls (add, remove, transmit) a run makes
MaxCalls == 5
\* how many statistics updates or received payloads a run makes
MaxUpdates == 3
\* how many tasks a run sends
MaxTasks == 3
\* elements of the task queue (the macro is 256; one element stays free)
IPC_THREAD_QUEUE_SIZE == 3
\* reserved built-in channels of the table; the macro's value is set in a
\* header outside the files at hand, so it is a bound of the model
IPC_MEM_MAX_CHANNELS == 1

\* ---------------------------------------------------------- constants
WWAN_ROOT_VLAN_TAG == 0
IPC_WWAN_DSS_ID_4 == 261
\* vid >= 512 is rejected by ipc_wwan_add_vlan
VidLimit == 512
EINVAL == 22
ENOMEM == 12
ENODEV == 19
EXDEV == 18
EIO == 5
EBUSY == 16
NETDEV_TX_OK == 0
NETDEV_TX_BUSY == 16
\* imem_sys_wwan_transmit's "re-enqueue" result
TxRetry == -2
\* lengths of the plain and of the tagged Ethernet header
ETH_HLEN == 14
VLAN_ETH_HLEN == 18
\* required alignment of the data handed to the transport
IPC_WWAN_ALIGN == 4
\* ipc_wwan_select_queue
WWAN_DEFAULT_TXQ == 0
InvalidTxq == 65535
IMEM_WWAN_DATA_VLAN_ID_START == 1
IMEM_WWAN_CTRL_VLAN_ID_START == 257
IMEM_WWAN_CTRL_VLAN_ID_END == 512
\* the tx queues of the root device, the session id of a tag, u16
WWAN_MIN_TXQ == 1
IPC_MEM_VLAN_TO_SESSION == 1
U16 == 65536
\* the MTU: its limits and what alloc_etherdev_mqs starts with
IPC_MEM_MIN_MTU_SIZE == 68
IPC_MEM_MAX_MTU_SIZE == 1048576
ETH_DATA_LEN == 1500

\* ipc_wwan_init: max_devs, max_ip_devs
max_devs == MaxSessions + IPC_MEM_MAX_CHANNELS
max_ip_devs == MaxSessions

\* last index of the memory the model keeps: the table and MaxOverflow
\* cells behind it
MemTop == max_devs + MaxOverflow

\* ------------------------------------------------------------- inputs
\* VLAN ids the host stack passes: the root tag, two IP-data tags, the tag
\* between the two ranges, two control tags, the tag ipc_wwan_vlan_rx_add_vid
\* skips, and an out-of-range tag
Vids == {0, 1, 2, 256, 257, 258, 261, 512}
\* tags a transmitted frame can carry
TxTags == {0, 1, 257}
\* the tags of the concurrent runs: one IP-data and one control session
LiveVids == {1, 257}

Admins == {"a1", "a2"}
Senders == {"t1"}
\* the contexts the transport delivers received payloads from
Receivers == {"r1", "r2"}
Procs == Admins \cup Senders \cup Receivers

ChannelIds == 0 .. (NumChannels - 1)

\* the character devices and the contexts that use them
Cdevs == {"sio", "mbim"}
Users == {"u1", "u2"}
NoCdev == [flag |-> FALSE, channel |-> FALSE, sio_fop |-> "none"]
NoUsr == [pc |-> "idle", dev |-> "none", ret |-> 0, file |-> "none"]

\* kcalloc: a zeroed struct ipc_vlan_info
ZeroEntry == [vlan_id |-> 0, ch_id |-> 0]
\* what a read behind the table can return besides what the driver wrote
ForeignEntries == {[vlan_id |-> 1, ch_id |-> -1]}

NoSend == [tag |-> -1, ch |-> -1, bound |-> {}, removing |-> {}]

\* ------------------------------------------------------------- frames
\* EtherType of the frame (the encapsulated one of a tagged frame)
Protos == {"ip", "ipv6", "other"}
\* first nibble of the payload behind the header
Nibbles == {4, 6, 0}
\* skb->len of a submitted frame: shorter than both headers, between the
\* two, longer than both
FrameLens == {10, 16, 20}
\* address of skb->data of a submitted frame, modulo IPC_WWAN_ALIGN
DataAddrs == {0, 2}

\* a frame as the host stack submits it: its VLAN tag, whether
\* skb->protocol is ETH_P_8021Q, its EtherType, length, payload and place
FrameTags == {0, 1, 256, 257}

Frames ==
    [tag : FrameTags, vlan : BOOLEAN, proto : Protos, nibble : Nibbles,
     len : FrameLens, addr : DataAddrs]

\* the frames of the concurrent runs: untagged header, full length, IP or
\* control class, aligned behind the header or not
LiveFrames ==
    [tag : LiveVids, vlan : {FALSE}, proto : {"ip", "other"}, nibble : {4},
     len : {20}, addr : DataAddrs]

\* the frames of the runs that are about the table: any tag of TxTags,
\* short or long, IP or not
TableFrames ==
    [tag : TxTags, vlan : {FALSE}, proto : {"ip", "other"}, nibble : {4},
     len : {10, 20}, addr : {2}]

\* no result of the transport yet
NoResult == 1

\* the sk_buff of the transmit under way: the submitted frame f, data and
\* len of the caller's sk_buff (data as offset from the start of the
\* frame), how often it was released, the sk_buff ipc_wwan_skb_align
\* allocated (new), what the local variable skb points at (cur), what the
\* transport was handed (passed) and returned (tr)
NoSkb ==
    [f |-> [tag |-> -1, vlan |-> FALSE, proto |-> "other", nibble |-> 0,
            len |-> 0, addr |-> 0],
     data |-> 0, len |-> 0, freed |-> 0, header_size |-> 0,
     new |-> "none", new_data |-> 0, new_freed |-> 0,
     cur |-> "orig", passed |-> "none", tr |-> NoResult]

VARIABLES
    vlan_devs,      \* the table and the cells around it: Mem -> entry
    vlan_devs_nr,   \* number of VLAN devices
    alloc_ok,       \* FALSE: kcalloc failed, ipc_wwan->vlan_devs is NULL
    if_mutex,       \* "free" or the context that holds if_mutex
    pc,             \* each context's position
    op,             \* the operation a context runs
    vid,            \* its vid / tag argument
    i,              \* loop index (lookup, compaction)
    idx,            \* result of the lookup (ch_nr in remove, idx in transmit)
    ret,            \* return value, valid at pc = "done"
    is_ip,          \* transmit: is_ip set by ipc_wwan_pull_header
    b0,             \* channel ids bound to the tag when remove / transmit started
    assigned,       \* transport: <<vid, channel id>> opened and not closed
    sent,           \* transport: the last frame handed over by transmit
    skb,            \* the sk_buff of the transmit under way
    oob,            \* some access went outside the table
    calls,          \* number of calls made so far
    snap,           \* SeqSpec: the state the running operation started in
    max_sessions,   \* ipc_wwan_init: the max_sessions it was called with
    queue_stopped,  \* netdev: the tx queues (and the cells behind) -> stopped
    q_oob,          \* some access went outside the tx queues
    mtu,            \* netdev->mtu
    req,            \* the last call of flow control or MTU change
    old,            \* queue_stopped and mtu before that call
    dev_stats,      \* vlan_devs[j].stats: Mem -> counters
    root_stats,     \* iosm_ndev->stats
    upd,            \* ipc_wwan_update_stats: len, tx, the statement it is at
                    \* and the counter value it has loaded, per context
    stat_old,       \* dev_stats and root_stats when the last call started
    stat_sum,       \* the updates that passed the index test, summed up
    rx,             \* ipc_wwan_receive: the payload, the EtherType it wrote
                    \* and the delivery, per context
    is_registered,  \* ipc_wwan->is_registered
    life,           \* how far ipc_wwan_deinit has come
    pending,        \* unregister_netdev: the vids the host stack still has
                    \* to take back
    ipc_task,       \* struct ipc_task_queue: args, q_rpos, q_wpos
    tasklet,        \* the tasklet: scheduled or not, where its handler is,
                    \* the handler's local q_rpos
    snd,            \* ipc_task_queue_send_task: position and locals of each
                    \* sending context
    tlog,           \* the tasks in the order they were accepted and run, and
                    \* how often each message copy was freed
    cleanup,        \* ipc_task_queue_deinit: where it is, and the local
                    \* q_rpos of ipc_task_queue_cleanup
    cdev,           \* the SIO and MBIM character devices: the IS_OPEN bit
                    \* of flag, channel (open or NULL) and sio_fop
    usr             \* the contexts that open and release the character
                    \* devices: position, device, result, and the device
                    \* whose open file the context holds

\* the state of the root device that flow control and the MTU change use
CtlState == <<queue_stopped, q_oob, mtu, req, old>>

\* the task queue, its tasklet and the contexts that send tasks
TaskState == <<ipc_task, tasklet, snd, tlog, cleanup>>

\* the character devices and the contexts that open them
CdevState == <<cdev, usr>>

\* the registration of the root device and its teardown
LifeState == <<is_registered, life, pending>>

\* the counters and the contexts that update them
StatsState == <<dev_stats, root_stats, upd, stat_old, stat_sum, rx>>

\* the state outside the session table and the transmit path
OtherState ==
    <<max_sessions, CtlState, StatsState, LifeState, TaskState, CdevState>>

\* the session table, the contexts that work on it and the transport
TableState == <<vlan_devs, vlan_devs_nr, alloc_ok, if_mutex, pc, op, vid, i,
                idx, ret, is_ip, b0, assigned, sent, skb, oob>>

vars == <<vlan_devs, vlan_devs_nr, alloc_ok, if_mutex, pc, op, vid, i, idx,
          ret, is_ip, b0, assigned, sent, skb, oob, calls, snap, OtherState>>

\* first index of the memory the model keeps: two removes that both passed
\* their checks before either took the mutex can take vlan_devs_nr to -1
MemLow == 1 - Cardinality(Admins)
Mem == MemLow .. MemTop

NoSnap == [devs |-> [j \in Mem |-> ZeroEntry], nr |-> 0, assigned |-> {}]

\* the tx queues the model keeps: those of the device and MaxOverflow
\* cells behind them
QueueCells == 0 .. (MaxSessions + MaxOverflow)

NoReq == [op |-> "none", arg |-> 0, on |-> FALSE, res |-> 0]

\* the contexts that send tasks
Producers == {"s1", "s2"}
QueueSlots == 0 .. (IPC_THREAD_QUEUE_SIZE - 1)

\* a task as its sender describes it: what func returns when it is called
\* (fres), whether a message of size > 0 comes with it, whether the sender
\* waits; id numbers the tasks of the run
NoTask == [id |-> 0, fres |-> 0, sized |-> FALSE, wait |-> FALSE]

\* kzalloc: a zeroed struct ipc_task_queue_args.  func and msg hold the id
\* of the task they belong to (0: NULL), completion the waiting sender
NoArgs == [func |-> 0, fres |-> 0, msg |-> 0, completion |-> "none",
           is_copy |-> FALSE, response |-> 0]

\* a sending context at rest: its task, the local variables pos, result
\* and is_copy, whether its completion was signalled, the return value
NoSend_Task ==
    [pc |-> "idle", task |-> NoTask, pos |-> 0, result |-> 0,
     is_copy |-> FALSE, completed |-> FALSE, ret |-> 0]

\* struct net_device_stats, the four counters the driver maintains
ZeroStats == [tx_packets |-> 0, tx_bytes |-> 0, rx_packets |-> 0,
              rx_bytes |-> 0]
AllZeroStats == [dev |-> [j \in Mem |-> ZeroStats], root |-> ZeroStats]
NoUpd == [len |-> 0, tx |-> FALSE, k |-> 0, tmp |-> 0]

\* no payload received: f is the payload as the transport passes it (its
\* VLAN tag if it has one, the dss argument, the first nibble behind the
\* header, skb->len, whether skb->data is set)
NoRx ==
    [f |-> [tag |-> 0, tagged |-> FALSE, dss |-> FALSE, nibble |-> 0,
            len |-> 0, data |-> FALSE],
     h_proto |-> "unset", delivered |-> 0, outcome |-> "none",
     counted |-> FALSE, freed |-> 0]

\* ------------------------------------------------------ memory access
InTable(j) == j >= 0 /\ j < max_devs

\* the values a read of vlan_devs[j] can produce
ReadSlot(j) ==
    IF InTable(j) THEN {vlan_devs[j]} ELSE {vlan_devs[j]} \cup ForeignEntries

\* oob after an access to vlan_devs[j]
Touched(j) == oob \/ ~InTable(j)

\* channel ids the transport has bound to tag t
BoundTo(t) == {c \in ChannelIds : <<t, c>> \in assigned}

\* ------------------------------------------------------------ ipc_wwan_init
InitTable ==
    /\ vlan_devs = [j \in Mem |-> ZeroEntry]
    /\ vlan_devs_nr = 0
    /\ alloc_ok \in BOOLEAN
    /\ if_mutex = "free"
    /\ pc = [p \in Procs |-> "idle"]
    /\ op = [p \in Procs |-> "none"]
    /\ vid = [p \in Procs |-> 0]
    /\ i = [p \in Procs |-> 0]
    /\ idx = [p \in Procs |-> 0]
    /\ ret = [p \in Procs |-> 0]
    /\ is_ip = [p \in Procs |-> FALSE]
    /\ b0 = [p \in Procs |-> {}]
    /\ assigned = {}
    /\ sent = NoSend
    /\ skb = NoSkb
    /\ oob = FALSE
    /\ calls = 0
    /\ snap = NoSnap

\* the state outside the table after ipc_wwan_init(ops, dev, m)
InitOther(m) ==
    /\ max_sessions = m
    /\ queue_stopped = [q \in QueueCells |-> FALSE]
    /\ q_oob = FALSE
    /\ mtu = ETH_DATA_LEN
    /\ req = NoReq
    /\ old = [stopped |-> [q \in QueueCells |-> FALSE], mtu |-> ETH_DATA_LEN]
    /\ dev_stats = AllZeroStats.dev
    /\ root_stats = ZeroStats
    /\ upd = [p \in Receivers |-> NoUpd]
    /\ stat_old = AllZeroStats
    /\ stat_sum = AllZeroStats
    /\ rx = [p \in Receivers |-> NoRx]
    /\ life = "up"
    /\ pending = {}
    /\ ipc_task = [args |-> [k \in QueueSlots |-> NoArgs], q_rpos |-> 0,
                   q_wpos |-> 0]
    /\ tasklet = [scheduled |-> FALSE, pc |-> "idle", q_rpos |-> 0]
    /\ snd = [p \in Producers |-> NoSend_Task]
    /\ tlog = [accepted |-> << >>, ran |-> << >>,
               freed |-> [t \in 1 .. MaxTasks |-> 0]]
    /\ cleanup = [pc |-> "none", q_rpos |-> 0]
    /\ cdev = [d \in Cdevs |-> NoCdev]
    /\ usr = [p \in Users |-> NoUsr]

Init == InitTable /\ InitOther(MaxSessions) /\ is_registered = TRUE

\* a context returns r
Return(p, r) ==
    /\ pc' = [pc EXCEPT ![p] = "done"]
    /\ ret' = [ret EXCEPT ![p] = r]

\* locals of the contexts that a step leaves alone
Locals == <<op, vid, i, idx, is_ip, b0>>

\* ------------------------------------------- imem_sys_wwan_open / _close
\* "Channel ID on success, -1 on failure": the first channel id that is not
\* in use, or -1
FreeChannels == {c \in ChannelIds : \A a \in assigned : a[2] # c}
OpenResults ==
    {-1} \cup {c \in FreeChannels : \A d \in FreeChannels : c <= d}

\* imem_sys_wwan_transmit: 0, the re-enqueue result, or another failure
TransportResults == {0, TxRetry, -1}

\* ------------------------------------------------- ipc_wwan_add_vlan
InvalidVid_OffByOne(v) == v > VidLimit
InvalidVid(v) == v >= VidLimit

\* ipc_wwan_vlan_rx_add_vid: the trace tag gets no session
ipc_wwan_vlan_rx_add_vid(p, v) ==
    /\ p \in Admins
    /\ pc[p] = "idle"
    /\ op' = [op EXCEPT ![p] = "add"]
    /\ vid' = [vid EXCEPT ![p] = v]
    /\ IF v # IPC_WWAN_DSS_ID_4
       THEN pc' = [pc EXCEPT ![p] = "add_check"] /\ ret' = ret
       ELSE Return(p, 0)
    /\ UNCHANGED <<vlan_devs, vlan_devs_nr, alloc_ok, if_mutex, i, idx, is_ip,
                   b0, assigned, sent, skb, oob>>

\* ipc_wwan_add_vlan, up to mutex_lock
add_check(p) ==
    /\ pc[p] = "add_check"
    /\ IF InvalidVid(vid[p]) \/ ~alloc_ok
       THEN Return(p, -EINVAL)
       ELSE IF vid[p] = WWAN_ROOT_VLAN_TAG
            THEN Return(p, 0)
            ELSE pc' = [pc EXCEPT ![p] = "add_lock"] /\ ret' = ret
    /\ UNCHANGED <<vlan_devs, vlan_devs_nr, alloc_ok, if_mutex, Locals,
                   assigned, sent, skb, oob>>

\* mutex_lock(&ipc_wwan->if_mutex).  The model stops adding once the next
\* write would fall behind MemTop.
add_lock(p) ==
    /\ pc[p] = "add_lock"
    /\ if_mutex = "free"
    /\ vlan_devs_nr < MemTop
    /\ if_mutex' = p
    /\ pc' = [pc EXCEPT ![p] = "add_open"]
    /\ UNCHANGED <<vlan_devs, vlan_devs_nr, alloc_ok, Locals, ret, assigned,
                   sent, skb, oob>>

\* vlan_devs[vlan_devs_nr].ch_id = imem_sys_wwan_open(...)
add_open(p) ==
    /\ pc[p] = "add_open"
    /\ \E r \in OpenResults :
        /\ vlan_devs' = [vlan_devs EXCEPT ![vlan_devs_nr].ch_id = r]
        /\ assigned' = IF r >= 0 THEN assigned \cup {<<vid[p], r>>} ELSE assigned
    /\ oob' = Touched(vlan_devs_nr)
    /\ pc' = [pc EXCEPT ![p] = "add_test"]
    /\ UNCHANGED <<vlan_devs_nr, alloc_ok, if_mutex, Locals, ret, sent, skb>>

\* if (vlan_devs[vlan_devs_nr].ch_id < 0) return -ENODEV; save vlan id
\* (add_test_NoCheck: the same step without the test of the channel id)
add_test_NoCheck(p) ==
    /\ pc[p] = "add_test"
    /\ vlan_devs' = [vlan_devs EXCEPT ![vlan_devs_nr].vlan_id = vid[p]]
    /\ pc' = [pc EXCEPT ![p] = "add_inc"]
    /\ oob' = Touched(vlan_devs_nr)
    /\ UNCHANGED <<vlan_devs_nr, alloc_ok, if_mutex, ret, Locals, assigned,
                   sent, skb>>
add_test(p) ==
    /\ pc[p] = "add_test"
    /\ \E e \in ReadSlot(vlan_devs_nr) :
        IF e.ch_id < 0
        THEN /\ if_mutex' = "free"
             /\ Return(p, -ENODEV)
             /\ UNCHANGED vlan_devs
        ELSE /\ vlan_devs' = [vlan_devs EXCEPT ![vlan_devs_nr].vlan_id = vid[p]]
             /\ pc' = [pc EXCEPT ![p] = "add_inc"]
             /\ UNCHANGED <<if_mutex, ret>>
    /\ oob' = Touched(vlan_devs_nr)
    /\ UNCHANGED <<vlan_devs_nr, alloc_ok, Locals, assigned, sent, skb>>

\* vlan_devs_nr++; mutex_unlock; return 0
add_inc(p) ==
    /\ pc[p] = "add_inc"
    /\ vlan_devs_nr' = vlan_devs_nr + 1
    /\ if_mutex' = "free"
    /\ Return(p, 0)
    /\ UNCHANGED <<vlan_devs, alloc_ok, Locals, assigned, sent, skb, oob>>

\* ------------------------------------------ ipc_wwan_get_vlan_devs_nr
\* where the caller of the lookup goes on
AfterLookup(p) ==
    IF op[p] = "remove" THEN "rm_check"
    ELSE IF op[p] = "transmit" THEN "tx_check"
    ELSE "st_check"

\* one iteration of the loop: i < vlan_devs_nr, vlan_devs[i].vlan_id == tag
ipc_wwan_get_vlan_devs_nr(p) ==
    /\ pc[p] = "lookup"
    /\ IF alloc_ok /\ i[p] < vlan_devs_nr
       THEN /\ \E e \in ReadSlot(i[p]) :
                IF e.vlan_id = vid[p]
                THEN /\ idx' = [idx EXCEPT ![p] = i[p]]
                     /\ pc' = [pc EXCEPT ![p] = AfterLookup(p)]
                     /\ i' = i
                ELSE /\ i' = [i EXCEPT ![p] = i[p] + 1]
                     /\ UNCHANGED <<idx, pc>>
            /\ oob' = Touched(i[p])
       ELSE /\ idx' = [idx EXCEPT ![p] = -EINVAL]
            /\ pc' = [pc EXCEPT ![p] = AfterLookup(p)]
            /\ UNCHANGED <<i, oob>>
    /\ UNCHANGED <<vlan_devs, vlan_devs_nr, alloc_ok, if_mutex, op, vid, is_ip,
                   b0, ret, assigned, sent, skb>>

\* ---------------------------------------------- ipc_wwan_remove_vlan
\* ipc_wwan_vlan_rx_kill_vid
ipc_wwan_vlan_rx_kill_vid(p, v) ==
    /\ p \in Admins
    /\ pc[p] = "idle"
    /\ op' = [op EXCEPT ![p] = "remove"]
    /\ vid' = [vid EXCEPT ![p] = v]
    /\ IF v = WWAN_ROOT_VLAN_TAG
       THEN Return(p, 0)
       ELSE pc' = [pc EXCEPT ![p] = "lookup"] /\ ret' = ret
    /\ i' = [i EXCEPT ![p] = 0]
    /\ b0' = [b0 EXCEPT ![p] = BoundTo(v)]
    /\ UNCHANGED <<vlan_devs, vlan_devs_nr, alloc_ok, if_mutex, idx, is_ip,
                   assigned, sent, skb, oob>>

\* the two checks ipc_wwan_remove_vlan makes before it takes the mutex
rm_check(p) ==
    /\ pc[p] = "rm_check"
    /\ IF idx[p] < 0
       THEN Return(p, idx[p]) /\ oob' = oob
       ELSE /\ \E e \in ReadSlot(idx[p]) :
                IF e.ch_id < 0
                THEN Return(p, -EINVAL)
                ELSE pc' = [pc EXCEPT ![p] = "rm_lock"] /\ ret' = ret
            /\ oob' = Touched(idx[p])
    /\ UNCHANGED <<vlan_devs, vlan_devs_nr, alloc_ok, if_mutex, Locals,
                   assigned, sent, skb>>

rm_lock(p) ==
    /\ pc[p] = "rm_lock"
    /\ if_mutex = "free"
    /\ if_mutex' = p
    /\ pc' = [pc EXCEPT ![p] = "rm_close"]
    /\ UNCHANGED <<vlan_devs, vlan_devs_nr, alloc_ok, Locals, ret, assigned,
                   sent, skb, oob>>

\* imem_sys_wwan_close(ops, vid, vlan_devs[ch_nr].ch_id);
\* vlan_devs[ch_nr].ch_id = -1
rm_close(p) ==
    /\ pc[p] = "rm_close"
    /\ \E e \in ReadSlot(idx[p]) :
        assigned' = assigned \ {<<vid[p], e.ch_id>>}
    /\ vlan_devs' = [vlan_devs EXCEPT ![idx[p]].ch_id = -1]
    /\ oob' = Touched(idx[p])
    /\ i' = [i EXCEPT ![p] = idx[p]]
    /\ pc' = [pc EXCEPT ![p] = "rm_shift"]
    /\ UNCHANGED <<vlan_devs_nr, alloc_ok, if_mutex, op, vid, idx, is_ip, b0,
                   ret, sent, skb>>

\* the slot the compaction loop copies into slot j
ShiftSource(j) == j + 1

\* for (i = ch_nr; i < vlan_devs_nr; i++) memcpy(&vlan_devs[i],
\* &vlan_devs[i + 1], ...); then vlan_devs_nr--; mutex_unlock; return 0
rm_shift(p) ==
    /\ pc[p] = "rm_shift"
    /\ IF i[p] < vlan_devs_nr
       THEN /\ \E e \in ReadSlot(ShiftSource(i[p])) :
                vlan_devs' = [vlan_devs EXCEPT ![i[p]] = e]
            /\ oob' = (oob \/ ~InTable(i[p]) \/ ~InTable(ShiftSource(i[p])))
            /\ i' = [i EXCEPT ![p] = i[p] + 1]
            /\ UNCHANGED <<vlan_devs_nr, if_mutex, pc, ret>>
       ELSE /\ vlan_devs_nr' = vlan_devs_nr - 1
            /\ if_mutex' = "free"
            /\ Return(p, 0)
            /\ UNCHANGED <<vlan_devs, oob, i>>
    /\ UNCHANGED <<alloc_ok, op, vid, idx, is_ip, b0, assigned, sent, skb>>

\* ------------------------------------------------- ipc_wwan_transmit
\* the vids whose removal is under way (past its checks) or has succeeded
Removing ==
    {vid[q] : q \in {a \in Admins :
        /\ op[a] = "remove"
        /\ \/ pc[a] \in {"rm_lock", "rm_close", "rm_shift"}
           \/ pc[a] = "done" /\ ret[a] = 0 /\ vid[a] # WWAN_ROOT_VLAN_TAG}}

\* the tag ranges of the protocol-class test
IsIpTag_Wide(t) == t > 0 /\ t < 258
IsIpTag(t) == t > 0 /\ t < 256
IsCtrlTag(t) == t > 256 /\ t < 512

\* ipc_wwan_pull_header: the header length by skb->protocol, 0 for a frame
\* shorter than that header
HeaderSize(f) ==
    IF f.vlan
    THEN IF f.len < VLAN_ETH_HLEN THEN 0 ELSE VLAN_ETH_HLEN
    ELSE IF f.len < ETH_HLEN THEN 0 ELSE ETH_HLEN

\* ipc_wwan_pull_header: *is_ip, from the EtherType of the header
IsIpProto_ByNibble(f) == f.nibble \in {4, 6}
IsIpProto(f) == f.proto \in {"ip", "ipv6"}

\* skb_pull(skb, n) on the caller's sk_buff
SkbPull(s, n) == [s EXCEPT !.data = @ + n, !.len = @ - n]

\* skb_push(skb, n) on the sk_buff the local variable points at
SkbPush(s, n) ==
    IF s.cur = "orig" THEN [s EXCEPT !.data = @ - n, !.len = @ + n]
    ELSE IF s.cur = "new" THEN [s EXCEPT !.new_data = @ - n]
    ELSE s

\* dev_kfree_skb_any(skb) at exit: releases what the local variable points
\* at, nothing when it is NULL
KfreeSkb(s) ==
    IF s.cur = "orig" THEN [s EXCEPT !.freed = @ + 1]
    ELSE IF s.cur = "new" THEN [s EXCEPT !.new_freed = @ + 1]
    ELSE s

\* offset in ipc_wwan_skb_align: skb->data & (IPC_WWAN_ALIGN - 1)
AlignOffset(s) == (s.f.addr + s.data) % IPC_WWAN_ALIGN

\* vlan_get_tag, the root-tag test and ipc_wwan_pull_header
ipc_wwan_transmit(p, f) ==
    /\ p \in Senders
    /\ pc[p] = "idle"
    /\ op' = [op EXCEPT ![p] = "transmit"]
    /\ vid' = [vid EXCEPT ![p] = f.tag]
    /\ LET s0 == [NoSkb EXCEPT !.f = f, !.len = f.len,
                               !.header_size = HeaderSize(f)]
       IN  IF f.tag = WWAN_ROOT_VLAN_TAG
           THEN /\ skb' = KfreeSkb([s0 EXCEPT !.header_size = 0])
                /\ Return(p, -EINVAL)
                /\ UNCHANGED <<is_ip, b0>>
           ELSE IF HeaderSize(f) = 0
           THEN /\ skb' = KfreeSkb(s0)
                /\ Return(p, -EINVAL)
                /\ UNCHANGED <<is_ip, b0>>
           ELSE /\ skb' = SkbPull(s0, HeaderSize(f))
                /\ pc' = [pc EXCEPT ![p] = "lookup"]
                /\ ret' = [ret EXCEPT ![p] = -EINVAL]
                /\ is_ip' = [is_ip EXCEPT ![p] = IsIpProto(f)]
                /\ b0' = [b0 EXCEPT ![p] = BoundTo(f.tag)]
    /\ i' = [i EXCEPT ![p] = 0]
    /\ UNCHANGED <<vlan_devs, vlan_devs_nr, alloc_ok, if_mutex, idx, assigned,
                   sent, oob>>

\* goto exit with ret = r
TxExit(p, r) == skb' = KfreeSkb(skb) /\ Return(p, r)

\* the index and channel test, the protocol-class test and the alignment
\* of a control frame (dev_alloc_skb in ipc_wwan_skb_align can fail)
tx_check(p) ==
    /\ pc[p] = "tx_check"
    /\ IF idx[p] < 0 \/ idx[p] >= max_devs
       THEN TxExit(p, -EINVAL)
       ELSE \E e \in ReadSlot(idx[p]) :
            IF e.ch_id < 0
            THEN TxExit(p, -EINVAL)
            ELSE IF IsIpTag(vid[p])
                 THEN IF ~is_ip[p]
                      THEN TxExit(p, -EXDEV)
                      ELSE /\ pc' = [pc EXCEPT ![p] = "tx_send"]
                           /\ UNCHANGED <<ret, skb>>
                 ELSE IF IsCtrlTag(vid[p])
                      THEN IF is_ip[p]
                           THEN TxExit(p, -EXDEV)
                           ELSE IF AlignOffset(skb) = 0
                                THEN /\ pc' = [pc EXCEPT ![p] = "tx_send"]
                                     /\ UNCHANGED <<ret, skb>>
                                ELSE \/ /\ skb' = [skb EXCEPT !.new = "live",
                                                              !.cur = "new"]
                                        /\ pc' = [pc EXCEPT ![p] = "tx_send"]
                                        /\ ret' = ret
                                     \/ /\ skb' = [skb EXCEPT !.new = "failed",
                                                              !.cur = "null"]
                                        /\ Return(p, ret[p])
                      ELSE TxExit(p, -EXDEV)
    /\ UNCHANGED <<vlan_devs, vlan_devs_nr, alloc_ok, if_mutex, Locals,
                   assigned, sent, oob>>

\* imem_sys_wwan_transmit(ops, tag, vlan_devs[idx].ch_id, skb) and the
\* mapping of its result
tx_send(p) ==
    /\ pc[p] = "tx_send"
    /\ \E e \in ReadSlot(idx[p]), r \in TransportResults :
        /\ sent' = [tag |-> vid[p], ch |-> e.ch_id, bound |-> BoundTo(vid[p]),
                    removing |-> Removing]
        /\ LET s1 == [skb EXCEPT !.passed = skb.cur, !.tr = r]
           IN  IF r = 0
               THEN skb' = s1 /\ Return(p, NETDEV_TX_OK)
               ELSE IF r = TxRetry
               THEN /\ skb' = SkbPush(s1, s1.header_size)
                    /\ Return(p, NETDEV_TX_BUSY)
               ELSE skb' = KfreeSkb(s1) /\ Return(p, -EIO)
    /\ UNCHANGED <<vlan_devs, vlan_devs_nr, alloc_ok, if_mutex, Locals,
                   assigned, oob>>

\* ---------------------------------------------- ipc_wwan_select_queue
\* txqn for a frame tagged t on a device with max_ip_devs = m
QueueFor(m, t) ==
    IF t >= IMEM_WWAN_DATA_VLAN_ID_START /\ t <= m
    THEN t
    ELSE IF \/ (t >= IMEM_WWAN_CTRL_VLAN_ID_START
                /\ t <= IMEM_WWAN_CTRL_VLAN_ID_END)
            \/ t = WWAN_ROOT_VLAN_TAG
         THEN WWAN_DEFAULT_TXQ
         ELSE InvalidTxq

\* the queue of a frame tagged t: max_ip_devs is max_sessions
TxQueue_Below(t) == QueueFor(max_sessions - 1, t)
TxQueue(t) == QueueFor(max_sessions, t)

\* ndo_select_queue for a tagged frame: the result is the return value
ipc_wwan_select_queue(p, t) ==
    /\ p \in Senders
    /\ pc[p] = "idle"
    /\ op' = [op EXCEPT ![p] = "select_queue"]
    /\ vid' = [vid EXCEPT ![p] = t]
    /\ Return(p, TxQueue(t))
    /\ UNCHANGED <<vlan_devs, vlan_devs_nr, alloc_ok, if_mutex, i, idx, is_ip,
                   b0, assigned, sent, skb, oob>>

\* ------------------------------- ipc_wwan_tx_flowctrl, _is_tx_stopped
\* ipc_wwan_mux_session_to_vlan_tag
SessionToTag_NoOffset(id) == id % U16
SessionToTag(id) == (id + IPC_MEM_VLAN_TO_SESSION) % U16

\* alloc_etherdev_mqs(.., WWAN_MIN_TXQ + max_sessions, ..): q is one of the
\* device's tx queues
HasQueue(q) == q < WWAN_MIN_TXQ + max_sessions

\* queue_stopped and mtu as a call finds them
CtlBefore == [stopped |-> queue_stopped, mtu |-> mtu]

\* netif_stop_subqueue / netif_wake_subqueue on queue SessionToTag(id)
ipc_wwan_tx_flowctrl(id, on) ==
    /\ LET q == SessionToTag(id)
       IN  /\ queue_stopped' = IF q \in QueueCells
                                THEN [queue_stopped EXCEPT ![q] = on]
                                ELSE queue_stopped
           /\ q_oob' = (q_oob \/ ~HasQueue(q))
    /\ req' = [op |-> "flowctrl", arg |-> id, on |-> on, res |-> 0]
    /\ old' = CtlBefore
    /\ UNCHANGED mtu

\* what __netif_subqueue_stopped can return for queue q, as 0 or 1
StoppedReads(q) ==
    IF HasQueue(q) THEN {IF queue_stopped[q] THEN 1 ELSE 0} ELSE {0, 1}

ipc_wwan_is_tx_stopped(id) ==
    /\ \E b \in StoppedReads(SessionToTag(id)) :
        req' = [op |-> "is_tx_stopped", arg |-> id, on |-> FALSE, res |-> b]
    /\ q_oob' = (q_oob \/ ~HasQueue(SessionToTag(id)))
    /\ old' = CtlBefore
    /\ UNCHANGED <<queue_stopped, mtu>>

\* ------------------------------------------------ ipc_wwan_change_mtu
MtuInRange_Open(n) == n > IPC_MEM_MIN_MTU_SIZE /\ n <= IPC_MEM_MAX_MTU_SIZE
MtuInRange(n) == n >= IPC_MEM_MIN_MTU_SIZE /\ n <= IPC_MEM_MAX_MTU_SIZE

ipc_wwan_change_mtu(n) ==
    /\ IF MtuInRange(n)
       THEN /\ mtu' = n
            /\ req' = [op |-> "change_mtu", arg |-> n, on |-> FALSE, res |-> 0]
       ELSE /\ mtu' = mtu
            /\ req' = [op |-> "change_mtu", arg |-> n, on |-> FALSE,
                       res |-> -EINVAL]
    /\ old' = CtlBefore
    /\ UNCHANGED <<queue_stopped, q_oob>>

\* ---------------------------------------------- ipc_wwan_update_stats
\* what the steps of the receive path leave alone
Shared == <<vlan_devs, vlan_devs_nr, alloc_ok, if_mutex, assigned, sent, skb,
            oob>>

\* the four statements of a direction, in program order: the session's
\* packets and bytes, then the root device's packets and bytes
StatField(k, tx) ==
    IF k \in {1, 3}
    THEN IF tx THEN "tx_packets" ELSE "rx_packets"
    ELSE IF tx THEN "tx_bytes" ELSE "rx_bytes"

\* what statement k adds: 1 (++) or len (+=)
StatInc(k, len) == IF k \in {1, 3} THEN 1 ELSE len

\* counters c with one update of len bytes in direction tx added
Counted(c, len, tx) ==
    [c EXCEPT ![StatField(1, tx)] = @ + 1, ![StatField(2, tx)] = @ + len]

\* idx = ipc_wwan_get_vlan_devs_nr(ipc_wwan,
\*                                ipc_wwan_mux_session_to_vlan_tag(id))
ipc_wwan_update_stats(p, id, len, tx) ==
    /\ p \in Receivers
    /\ pc[p] = "idle"
    /\ op' = [op EXCEPT ![p] = "update_stats"]
    /\ vid' = [vid EXCEPT ![p] = SessionToTag(id)]
    /\ i' = [i EXCEPT ![p] = 0]
    /\ pc' = [pc EXCEPT ![p] = "lookup"]
    /\ upd' = [upd EXCEPT ![p] = [len |-> len, tx |-> tx, k |-> 1, tmp |-> 0]]
    /\ stat_old' = [dev |-> dev_stats, root |-> root_stats]
    /\ UNCHANGED <<Shared, idx, ret, is_ip, b0, dev_stats, root_stats,
                   stat_sum, rx>>

\* where ipc_wwan_update_stats returns to: its caller ipc_wwan_receive, or
\* out of the driver (the function is void)
StatsEnd(p) ==
    IF op[p] = "receive"
    THEN pc' = [pc EXCEPT ![p] = "rx_deliver"] /\ ret' = ret
    ELSE Return(p, 0)

\* if (idx < 0 || idx >= ipc_wwan->max_devs) return
st_check(p) ==
    /\ pc[p] = "st_check"
    /\ IF idx[p] < 0 \/ idx[p] >= max_devs
       THEN StatsEnd(p) /\ UNCHANGED stat_sum
       ELSE /\ pc' = [pc EXCEPT ![p] = "st_load"]
            /\ ret' = ret
            /\ stat_sum' =
                 [dev |-> [stat_sum.dev EXCEPT ![idx[p]] =
                              Counted(@, upd[p].len, upd[p].tx)],
                  root |-> Counted(stat_sum.root, upd[p].len, upd[p].tx)]
    /\ UNCHANGED <<Shared, Locals, dev_stats, root_stats, upd, stat_old, rx>>

\* statement k: the read of the counter ...
st_load(p) ==
    /\ pc[p] = "st_load"
    /\ LET f == StatField(upd[p].k, upd[p].tx)
           v == IF upd[p].k <= 2 THEN dev_stats[idx[p]][f] ELSE root_stats[f]
       IN  upd' = [upd EXCEPT ![p].tmp = v]
    /\ pc' = [pc EXCEPT ![p] = "st_store"]
    /\ UNCHANGED <<Shared, Locals, ret, dev_stats, root_stats, stat_old,
                   stat_sum, rx>>

\* ... and the write of the value read plus the increment
st_store(p) ==
    /\ pc[p] = "st_store"
    /\ LET f == StatField(upd[p].k, upd[p].tx)
           v == upd[p].tmp + StatInc(upd[p].k, upd[p].len)
       IN  IF upd[p].k <= 2
           THEN /\ dev_stats' = [dev_stats EXCEPT ![idx[p]][f] = v]
                /\ root_stats' = root_stats
           ELSE /\ root_stats' = [root_stats EXCEPT ![f] = v]
                /\ dev_stats' = dev_stats
    /\ upd' = [upd EXCEPT ![p].k = @ + 1, ![p].tmp = 0]
    /\ IF upd[p].k = 4
       THEN StatsEnd(p)
       ELSE pc' = [pc EXCEPT ![p] = "st_load"] /\ ret' = ret
    /\ UNCHANGED <<Shared, Locals, stat_old, stat_sum, rx>>

\* --------------------------------------------------- ipc_wwan_receive
\* eth->h_proto: ETH_P_802_3, replaced by the payload's IP version unless
\* dss is set
RxProto_Sniff(dss, nibble) ==
    IF nibble = 4 THEN "ip" ELSE IF nibble = 6 THEN "ipv6" ELSE "802_3"
RxProto(dss, nibble) ==
    IF ~dss /\ nibble = 4 THEN "ip"
    ELSE IF ~dss /\ nibble = 6 THEN "ipv6"
    ELSE "802_3"

\* ipc_wwan_vlan_to_mux_session_id
VlanToSession(tag) == tag - IPC_MEM_VLAN_TO_SESSION

\* the tags a received payload can carry; vlan_get_tag leaves the local
\* variable tag as it was when the payload carries none
RxTags == {1, 257}

\* ipc_wwan_receive up to the lookup of ipc_wwan_update_stats.  skb->len
\* is counted after eth_type_trans has pulled the Ethernet header.
ipc_wwan_receive(p, f) ==
    /\ p \in Receivers
    /\ pc[p] = "idle"
    /\ op' = [op EXCEPT ![p] = "receive"]
    /\ i' = [i EXCEPT ![p] = 0]
    /\ stat_old' = [dev |-> dev_stats, root |-> root_stats]
    /\ IF ~f.data
       THEN /\ rx' = [rx EXCEPT ![p] = [NoRx EXCEPT !.f = f, !.freed = 1]]
            /\ Return(p, -1)
            /\ UNCHANGED <<vid, upd>>
       ELSE /\ rx' = [rx EXCEPT ![p] =
                        [NoRx EXCEPT !.f = f,
                                     !.h_proto = RxProto(f.dss, f.nibble)]]
            /\ \E tag \in (IF f.tagged THEN {f.tag} ELSE RxTags) :
                    vid' = [vid EXCEPT ![p] = SessionToTag(VlanToSession(tag))]
            /\ upd' = [upd EXCEPT ![p] = [len |-> f.len - ETH_HLEN,
                                          tx |-> FALSE, k |-> 1, tmp |-> 0]]
            /\ pc' = [pc EXCEPT ![p] = "lookup"]
            /\ ret' = ret
    /\ UNCHANGED <<Shared, idx, is_ip, b0, dev_stats, root_stats, stat_sum>>

\* netif_rx_ni(skb), whose result is not used; return 0
rx_deliver(p) ==
    /\ pc[p] = "rx_deliver"
    /\ \E o \in {"NET_RX_SUCCESS", "NET_RX_DROP", "other"} :
            rx' = [rx EXCEPT ![p].delivered = @ + 1, ![p].outcome = o,
                             ![p].counted = (upd[p].k = 5)]
    /\ Return(p, 0)
    /\ UNCHANGED <<Shared, Locals, dev_stats, root_stats, upd, stat_old,
                   stat_sum>>

\* ---------------------------------------------------- ipc_wwan_deinit
\* the tags of the live sessions: the vids the host stack has registered
LiveTags == {vlan_devs[j].vlan_id : j \in 0 .. (vlan_devs_nr - 1)}

\* if (ipc_wwan->is_registered) unregister_netdev(ipc_wwan->netdev): the
\* host stack starts to detach the device
ipc_wwan_deinit ==
    /\ life = "up"
    /\ \A p \in Procs : pc[p] = "idle"
    /\ IF is_registered
       THEN life' = "unregistering" /\ pending' = LiveTags
       ELSE life' = "unregistered" /\ pending' = pending
    /\ UNCHANGED is_registered

\* unregister_netdev: the VLAN layer of the host stack removes its devices
\* and gives each vid back through ndo_vlan_rx_kill_vid, in any order
unregister_kill_vid(p) ==
    /\ life = "unregistering"
    /\ \E v \in pending :
            /\ ipc_wwan_vlan_rx_kill_vid(p, v)
            /\ pending' = pending \ {v}
    /\ UNCHANGED <<is_registered, life>>

\* unregister_netdev returns: the device is detached
unregister_done(p) ==
    /\ life = "unregistering"
    /\ pending = {}
    /\ pc[p] = "idle"
    /\ life' = "unregistered"
    /\ UNCHANGED <<is_registered, pending>>

\* kfree(ipc_wwan->vlan_devs), then free_netdev(ipc_wwan->netdev)
deinit_free ==
    /\ life \in {"unregistered", "table_freed"}
    /\ life' = IF life = "unregistered" THEN "table_freed" ELSE "freed"
    /\ UNCHANGED <<is_registered, pending>>

\* ---------------------------------------------- ipc_task_queue_send_task
\* kmemdup of a message of size > 0, which can fail
ipc_task_queue_send_task(p, t) ==
    /\ snd[p].pc = "idle"
    /\ \/ snd' = [snd EXCEPT ![p] = [NoSend_Task EXCEPT !.pc = "add",
                                        !.task = t, !.is_copy = t.sized]]
       \/ /\ t.sized
          /\ snd' = [snd EXCEPT ![p] = [NoSend_Task EXCEPT !.pc = "done",
                                        !.task = t, !.ret = -ENOMEM]]
    /\ UNCHANGED <<ipc_task, tasklet, tlog>>

\* ipc_task_queue_add_task, the part under q_lock
\* (add_task_NoFullCheck: the same without the test nextpos != q_rpos)
add_task_NoFullCheck(p) ==
    /\ snd[p].pc = "add"
    /\ LET pos == ipc_task.q_wpos
           nextpos == (pos + 1) % IPC_THREAD_QUEUE_SIZE
           t == snd[p].task
       IN  /\ ipc_task' =
                 [ipc_task EXCEPT
                    !.args[pos] =
                        [func |-> t.id, fres |-> t.fres,
                         msg |-> IF snd[p].is_copy THEN t.id ELSE 0,
                         completion |-> IF t.wait THEN p ELSE "none",
                         is_copy |-> snd[p].is_copy, response |-> -1],
                    !.q_wpos = nextpos]
           /\ snd' = [snd EXCEPT ![p].pc = "schedule", ![p].pos = pos,
                                 ![p].result = 0]
           /\ tlog' = [tlog EXCEPT !.accepted = Append(@, t.id)]
    /\ UNCHANGED tasklet
add_task(p) ==
    /\ snd[p].pc = "add"
    /\ LET pos == ipc_task.q_wpos
           nextpos == (pos + 1) % IPC_THREAD_QUEUE_SIZE
           t == snd[p].task
       IN  IF nextpos # ipc_task.q_rpos
           THEN /\ ipc_task' =
                     [ipc_task EXCEPT
                        !.args[pos] =
                            [func |-> t.id, fres |-> t.fres,
                             msg |-> IF snd[p].is_copy THEN t.id ELSE 0,
                             completion |-> IF t.wait THEN p ELSE "none",
                             is_copy |-> snd[p].is_copy, response |-> -1],
                        !.q_wpos = nextpos]
                /\ snd' = [snd EXCEPT ![p].pc = "schedule", ![p].pos = pos,
                                      ![p].result = 0]
                /\ tlog' = [tlog EXCEPT !.accepted = Append(@, t.id)]
           ELSE /\ snd' = [snd EXCEPT ![p].pc = "return", ![p].pos = pos,
                                      ![p].result = -1]
                /\ UNCHANGED <<ipc_task, tlog>>
    /\ UNCHANGED tasklet

\* tasklet_schedule; a sender that does not wait returns result
add_task_schedule(p) ==
    /\ snd[p].pc = "schedule"
    /\ tasklet' = [tasklet EXCEPT !.scheduled = TRUE]
    /\ snd' = [snd EXCEPT ![p].pc = IF snd[p].task.wait THEN "wait"
                                    ELSE "return"]
    /\ UNCHANGED <<ipc_task, tlog>>

\* wait_for_completion returns
add_task_wait(p) ==
    /\ snd[p].pc = "wait"
    /\ snd[p].completed
    /\ snd' = [snd EXCEPT ![p].pc = "response"]
    /\ UNCHANGED <<ipc_task, tasklet, tlog>>

\* result = ipc_task->args[pos].response
add_task_response(p) ==
    /\ snd[p].pc = "response"
    /\ snd' = [snd EXCEPT ![p].pc = "return",
                          ![p].result = ipc_task.args[snd[p].pos].response]
    /\ UNCHANGED <<ipc_task, tasklet, tlog>>

\* ipc_task_queue_send_task after ipc_task_queue_add_task has returned
\* result
send_task_return(p) ==
    /\ snd[p].pc = "return"
    /\ IF snd[p].result < 0
       THEN /\ snd' = [snd EXCEPT ![p].pc = "done", ![p].ret = -1]
            /\ tlog' = IF snd[p].is_copy
                       THEN [tlog EXCEPT !.freed[snd[p].task.id] = @ + 1]
                       ELSE tlog
       ELSE /\ snd' = [snd EXCEPT ![p].pc = "done", ![p].ret = 0]
            /\ tlog' = tlog
    /\ UNCHANGED <<ipc_task, tasklet>>

\* the caller takes the result
send_task_finish(p) ==
    /\ snd[p].pc = "done"
    /\ snd' = [snd EXCEPT ![p] = NoSend_Task]
    /\ UNCHANGED <<ipc_task, tasklet, tlog>>

\* ------------------------------------------------ ipc_task_queue_handler
\* the tasklet starts: q_rpos = ipc_task->q_rpos
handler_start ==
    /\ tasklet.scheduled
    /\ tasklet.pc = "idle"
    /\ tasklet' = [scheduled |-> FALSE, pc |-> "loop",
                   q_rpos |-> ipc_task.q_rpos]
    /\ UNCHANGED <<ipc_task, snd, tlog>>

\* while (q_rpos != ipc_task->q_wpos)
handler_loop ==
    /\ tasklet.pc = "loop"
    /\ tasklet' = [tasklet EXCEPT !.pc = IF tasklet.q_rpos # ipc_task.q_wpos
                                         THEN "run" ELSE "idle"]
    /\ UNCHANGED <<ipc_task, snd, tlog>>

\* args->response = args->func(...); complete(args->completion)
handler_run ==
    /\ tasklet.pc = "run"
    /\ LET a == ipc_task.args[tasklet.q_rpos]
       IN  /\ IF a.func # 0
              THEN /\ ipc_task' = [ipc_task EXCEPT
                                     !.args[tasklet.q_rpos].response = a.fres]
                   /\ tlog' = [tlog EXCEPT !.ran = Append(@, a.func)]
              ELSE UNCHANGED <<ipc_task, tlog>>
           /\ snd' = IF a.completion # "none"
                     THEN [snd EXCEPT ![a.completion].completed = TRUE]
                     ELSE snd
    /\ tasklet' = [tasklet EXCEPT !.pc = "release"]

\* kfree(args->msg) of a copy; the element is cleared; q_rpos advances
handler_release ==
    /\ tasklet.pc = "release"
    /\ LET r == tasklet.q_rpos
           a == ipc_task.args[r]
           next == (r + 1) % IPC_THREAD_QUEUE_SIZE
       IN  /\ tlog' = IF a.is_copy
                      THEN [tlog EXCEPT !.freed[a.msg] = @ + 1]
                      ELSE tlog
           /\ ipc_task' = [ipc_task EXCEPT
                             !.args[r] = [NoArgs EXCEPT !.response = a.response],
                             !.q_rpos = next]
           /\ tasklet' = [tasklet EXCEPT !.pc = "loop", !.q_rpos = next]
    /\ UNCHANGED snd

\* ------------------------------------------------ ipc_task_queue_deinit
\* ipc_task_queue_deinit enters ipc_task_queue_cleanup:
\* q_rpos = ipc_task->q_rpos
ipc_task_queue_deinit ==
    /\ cleanup.pc = "none"
    /\ cleanup' = [pc |-> "loop", q_rpos |-> ipc_task.q_rpos]
    /\ UNCHANGED <<ipc_task, tasklet, snd, tlog>>

\* one turn of the loop of ipc_task_queue_cleanup: complete, kfree of a
\* copy, q_rpos advances (func is not called, the element is not
\* cleared); after the loop kfree(ipc_task)
ipc_task_queue_cleanup ==
    /\ cleanup.pc = "loop"
    /\ IF cleanup.q_rpos # ipc_task.q_wpos
       THEN LET r == cleanup.q_rpos
                a == ipc_task.args[r]
                next == (r + 1) % IPC_THREAD_QUEUE_SIZE
            IN  /\ snd' = IF a.completion # "none"
                          THEN [snd EXCEPT ![a.completion].completed = TRUE]
                          ELSE snd
                /\ tlog' = IF a.is_copy
                           THEN [tlog EXCEPT !.freed[a.msg] = @ + 1]
                           ELSE tlog
                /\ ipc_task' = [ipc_task EXCEPT !.q_rpos = next]
                /\ cleanup' = [cleanup EXCEPT !.q_rpos = next]
       ELSE /\ cleanup' = [cleanup EXCEPT !.pc = "freed"]
            /\ UNCHANGED <<ipc_task, snd, tlog>>
    /\ UNCHANGED tasklet

\* ----------------------------- ipc_sio_fop_open / ipc_mbim_fop_open
\* a result of fop_open or fop_release
FopReturn(p, d, r, f) ==
    usr' = [usr EXCEPT ![p] = [pc |-> "done", dev |-> d, ret |-> r,
                               file |-> f]]

\* kzalloc of the open-file object, which can fail
ipc_sio_fop_open(p, d) ==
    /\ usr[p].pc = "idle"
    /\ usr[p].file = "none"
    /\ \/ usr' = [usr EXCEPT ![p] = [NoUsr EXCEPT !.pc = "test", !.dev = d]]
       \/ FopReturn(p, d, -ENOMEM, "none")
    /\ UNCHANGED cdev

\* if (test_and_set_bit(IS_OPEN, &flag)) { kfree; return -EBUSY; }
open_test(p) ==
    /\ usr[p].pc = "test"
    /\ LET d == usr[p].dev
       IN  IF cdev[d].flag
           THEN FopReturn(p, d, -EBUSY, "none") /\ UNCHANGED cdev
           ELSE /\ cdev' = [cdev EXCEPT ![d].flag = TRUE]
                /\ usr' = [usr EXCEPT ![p].pc = "channel"]

\* channel = imem_sys_sio_open(..); if (!channel) { kfree; return -EIO; }
open_channel(p) ==
    /\ usr[p].pc = "channel"
    /\ LET d == usr[p].dev
       IN  \/ /\ cdev' = [cdev EXCEPT ![d].channel = TRUE]
              /\ usr' = [usr EXCEPT ![p].pc = "attach"]
           \/ /\ cdev' = [cdev EXCEPT ![d].channel = FALSE]
              /\ FopReturn(p, d, -EIO, "none")

\* under the mutex: i_private = op; sio_fop = op; op->sio_dev = dev;
\* return 0
open_attach(p) ==
    /\ usr[p].pc = "attach"
    /\ LET d == usr[p].dev
       IN  /\ cdev' = [cdev EXCEPT ![d].sio_fop = p]
           /\ FopReturn(p, d, 0, d)

\* the release of the file a context holds: clear_bit(IS_OPEN),
\* imem_sys_sio_close, sio_fop = NULL, kfree
ipc_sio_fop_release(p) ==
    /\ usr[p].pc = "idle"
    /\ usr[p].file # "none"
    /\ LET d == usr[p].file
       IN  /\ cdev' = [cdev EXCEPT ![d] = NoCdev]
           /\ FopReturn(p, d, 0, "none")

\* the caller takes the result
fop_return(p) ==
    /\ usr[p].pc = "done"
    /\ usr' = [usr EXCEPT ![p].pc = "idle"]
    /\ UNCHANGED cdev

\* ---------------------------------------------------------- contexts
\* the caller takes the result; the context is free for the next call
finish(p) ==
    /\ pc[p] = "done"
    /\ pc' = [pc EXCEPT ![p] = "idle"]
    /\ op' = [op EXCEPT ![p] = "none"]
    /\ vid' = [vid EXCEPT ![p] = 0]
    /\ i' = [i EXCEPT ![p] = 0]
    /\ idx' = [idx EXCEPT ![p] = 0]
    /\ ret' = [ret EXCEPT ![p] = 0]
    /\ is_ip' = [is_ip EXCEPT ![p] = FALSE]
    /\ b0' = [b0 EXCEPT ![p] = {}]
    /\ sent' = IF p \in Senders THEN NoSend ELSE sent
    /\ skb' = IF p \in Senders THEN NoSkb ELSE skb
    /\ UNCHANGED <<vlan_devs, vlan_devs_nr, alloc_ok, if_mutex, assigned, oob>>

\* calls and snap are bookkeeping of the run, not state of the driver: an
\* inner step leaves both alone, a call counts itself and keeps s, a
\* snapshot of the state it starts in.  g is the scheduling condition of
\* the run: TRUE when contexts interleave freely.
InStep(g) == g /\ UNCHANGED <<calls, snap, OtherState>>

\* the memcpy of the compaction loop copies the whole struct ipc_vlan_info,
\* its stats included
InShift(g, p) ==
    /\ g
    /\ dev_stats' = IF i[p] < vlan_devs_nr
                    THEN [dev_stats EXCEPT ![i[p]] = dev_stats[ShiftSource(i[p])]]
                    ELSE dev_stats
    /\ UNCHANGED <<calls, snap, max_sessions, CtlState, LifeState, TaskState, CdevState, root_stats,
                   upd,
                   stat_old, stat_sum, rx>>

InCall(g, s) ==
    /\ g
    /\ calls < MaxCalls
    /\ calls' = calls + 1
    /\ snap' = s
    /\ UNCHANGED OtherState

\* the steps inside ipc_wwan_add_vlan and ipc_wwan_remove_vlan
AdminStep(p, g) ==
    \/ InStep(g) /\ add_check(p)
    \/ InStep(g) /\ add_lock(p)
    \/ InStep(g) /\ add_open(p)
    \/ InStep(g) /\ add_test(p)
    \/ InStep(g) /\ add_inc(p)
    \/ InStep(g) /\ ipc_wwan_get_vlan_devs_nr(p)
    \/ InStep(g) /\ rm_check(p)
    \/ InStep(g) /\ rm_lock(p)
    \/ InStep(g) /\ rm_close(p)
    \/ InShift(g, p) /\ rm_shift(p)
    \/ InStep(g) /\ finish(p)

\* the steps inside ipc_wwan_transmit that follow its lookup
TxStep(p, g) ==
    \/ InStep(g) /\ tx_check(p)
    \/ InStep(g) /\ tx_send(p)

\* a call of the VLAN filter with its argument drawn from vs
AdminCall(p, vs, g, s) ==
    \/ \E v \in vs : InCall(g, s) /\ ipc_wwan_vlan_rx_add_vid(p, v)
    \/ \E v \in vs : InCall(g, s) /\ ipc_wwan_vlan_rx_kill_vid(p, v)

\* a transmit of a frame drawn from fs
TxCall(p, fs, g, s) ==
    /\ pc[p] = "idle" /\ calls < MaxCalls /\ g
    /\ \E f \in fs : InCall(g, s) /\ ipc_wwan_transmit(p, f)

\* a queue selection for a frame with its tag drawn from ts
QueueCall(p, ts, g, s) ==
    /\ pc[p] = "idle"
    /\ \E t \in ts : InCall(g, s) /\ ipc_wwan_select_queue(p, t)

\* a step of the receive path: it works on the counters
StatStep(g) ==
    g /\ UNCHANGED <<calls, snap, max_sessions, CtlState, LifeState, TaskState, CdevState>>

\* the caller of the receive path takes the result
st_finish(p) ==
    /\ finish(p)
    /\ upd' = [upd EXCEPT ![p] = NoUpd]
    /\ rx' = [rx EXCEPT ![p] = NoRx]
    /\ UNCHANGED <<dev_stats, root_stats, stat_old, stat_sum>>

\* the steps inside ipc_wwan_update_stats
StatsSteps(p, g) ==
    \/ InStep(g) /\ ipc_wwan_get_vlan_devs_nr(p)
    \/ StatStep(g) /\ st_check(p)
    \/ StatStep(g) /\ st_load(p)
    \/ StatStep(g) /\ st_store(p)
    \/ StatStep(g) /\ st_finish(p)

\* Concurrent runs, on the sessions of LiveVids.
\* Spec: the administrative context a1 against the transmit context t1.
DataProcs == {"a1", "t1"}

Next ==
    \E p \in DataProcs :
        \/ AdminCall(p, LiveVids, TRUE, snap)
        \/ TxCall(p, LiveFrames, TRUE, snap)
        \/ AdminStep(p, TRUE)
        \/ TxStep(p, TRUE)

Spec == Init /\ [][Next]_vars

\* AdminSpec: two administrative contexts against each other.
NextAdmin ==
    \E p \in Admins :
        \/ AdminCall(p, LiveVids, TRUE, snap)
        \/ AdminStep(p, TRUE)

AdminSpec == Init /\ [][NextAdmin]_vars

\* SeqSpec: one operation at a time, with every input; snap is the state
\* the operation started in
Snapshot == [devs |-> vlan_devs, nr |-> vlan_devs_nr, assigned |-> assigned]

SeqProcs == {"a1", "t1"}

\* every context but p is idle
Alone(p) == \A q \in Procs \ {p} : pc[q] = "idle"

NextSeq ==
    \E p \in SeqProcs :
        \/ AdminCall(p, Vids, Alone(p), Snapshot)
        \/ TxCall(p, TableFrames, Alone(p), Snapshot)
        \/ AdminStep(p, Alone(p))
        \/ TxStep(p, Alone(p))

SeqSpec == Init /\ [][NextSeq]_vars

\* TxSpec: one operation at a time on the sessions of LiveVids, with every
\* frame of Frames and the queue selection
QueueTags == {0, 1, 2, 3, 4, 255, 256, 257, 511, 512, 513}

NextTx ==
    \E p \in SeqProcs :
        \/ AdminCall(p, LiveVids, Alone(p), Snapshot)
        \/ TxCall(p, Frames, Alone(p), Snapshot)
        \/ QueueCall(p, QueueTags, Alone(p), Snapshot)
        \/ AdminStep(p, Alone(p))
        \/ TxStep(p, Alone(p))

TxSpec == Init /\ [][NextTx]_vars

\* QueueSpec: the queue selection alone, on a device that ipc_wwan_init
\* set up with any of these max_sessions (alloc_etherdev_mqs takes every
\* count of 1 + max_sessions queues from 1 on)
SessionCounts == {0, 1, 2, 255, 256, 257, 300, 511, 512, 600}

InitQueue ==
    InitTable /\ (\E m \in SessionCounts : InitOther(m))
        /\ is_registered = TRUE

NextQueue ==
    \E p \in Senders :
        \/ QueueCall(p, QueueTags, TRUE, snap)
        \/ InStep(TRUE) /\ finish(p)

QueueSpec == InitQueue /\ [][NextQueue]_vars

\* CtlSpec: flow control, its query and the MTU change, one call at a
\* time; each is one access to the root device
FlowIds == {-1, 0, 1, 2, 256}
Mtus == {-1, 0, 67, 68, 69, 1500, 1048575, 1048576, 1048577}

\* a call that leaves the table and the contexts alone
CtlCall ==
    /\ calls < MaxCalls
    /\ calls' = calls + 1
    /\ UNCHANGED <<TableState, snap, max_sessions, StatsState, LifeState,
                   TaskState, CdevState>>

NextCtl ==
    \/ \E id \in FlowIds, on \in BOOLEAN :
            CtlCall /\ ipc_wwan_tx_flowctrl(id, on)
    \/ \E id \in FlowIds : CtlCall /\ ipc_wwan_is_tx_stopped(id)
    \/ \E n \in Mtus : CtlCall /\ ipc_wwan_change_mtu(n)

CtlSpec == Init /\ [][NextCtl]_vars

\* Session tables the driver can be in when payloads arrive, as sequences
\* of <<vid, channel id>> in the order of their adds: none, one, both
\* classes, and tables that hold MaxSessions + 1 and MaxSessions + 2
\* sessions (add has no capacity check)
TableOf(s) ==
    [devs |-> [j \in Mem |-> IF j >= 0 /\ j < Len(s)
                             THEN [vlan_id |-> s[j + 1][1],
                                   ch_id |-> s[j + 1][2]]
                             ELSE ZeroEntry],
     nr |-> Len(s),
     assigned |-> {s[j] : j \in 1 .. Len(s)}]

RxTables ==
    {TableOf(<< >>),
     TableOf(<< <<1, 0>> >>),
     TableOf(<< <<1, 0>>, <<257, 1>> >>),
     TableOf(<< <<257, 0>>, <<1, 1>>, <<2, 2>> >>),
     TableOf(<< <<257, 0>>, <<2, 1>>, <<258, 2>>, <<1, 3>> >>)}

\* the driver after the adds that built table t
InitLive(t) ==
    /\ vlan_devs = t.devs
    /\ vlan_devs_nr = t.nr
    /\ alloc_ok = TRUE
    /\ if_mutex = "free"
    /\ pc = [p \in Procs |-> "idle"]
    /\ op = [p \in Procs |-> "none"]
    /\ vid = [p \in Procs |-> 0]
    /\ i = [p \in Procs |-> 0]
    /\ idx = [p \in Procs |-> 0]
    /\ ret = [p \in Procs |-> 0]
    /\ is_ip = [p \in Procs |-> FALSE]
    /\ b0 = [p \in Procs |-> {}]
    /\ assigned = t.assigned
    /\ sent = NoSend
    /\ skb = NoSkb
    /\ oob = (t.nr > max_devs)
    /\ calls = 0
    /\ snap = NoSnap

InitRx ==
    /\ \E t \in RxTables : InitLive(t)
    /\ InitOther(MaxSessions)
    /\ is_registered = TRUE

\* a statistics update with its session id and length drawn from ids and
\* lens
StatsCall(p, g, ids, lens) ==
    /\ pc[p] = "idle" /\ calls < MaxUpdates /\ g
    /\ \E id \in ids, n \in lens, tx \in BOOLEAN :
            /\ calls' = calls + 1
            /\ ipc_wwan_update_stats(p, id, n, tx)
            /\ UNCHANGED <<snap, max_sessions, CtlState, LifeState, TaskState, CdevState>>

\* StatsSeqSpec: the statistics update, one call at a time, for the
\* sessions of tags 1, 2 and 257 and the id before the first
NextStatsSeq ==
    \E p \in Receivers :
        \/ StatsCall(p, Alone(p), {-1, 0, 1, 256}, {1, 100})
        \/ StatsSteps(p, Alone(p))

StatsSeqSpec == InitRx /\ [][NextStatsSeq]_vars

\* StatsSpec: two contexts update the statistics at the same time, r1 for
\* the session of tag 1 and r2 for the session of tag 257
NextStats ==
    \E p \in Receivers :
        \/ StatsCall(p, TRUE, IF p = "r1" THEN {0} ELSE {256}, {100})
        \/ StatsSteps(p, TRUE)

StatsSpec == InitRx /\ [][NextStats]_vars

\* the payloads of the receive runs: with the tag of an IP or a control
\* session or without tag, either class, an IPv4, IPv6 or other first
\* nibble, 1 or 100 bytes behind the Ethernet header, skb->data set or not
RxFrames ==
    [tag : RxTags, tagged : BOOLEAN, dss : BOOLEAN, nibble : Nibbles,
     len : {ETH_HLEN + 1, ETH_HLEN + 100}, data : BOOLEAN]

\* a step of context p in a receive run
RxNext(p) ==
    \/ /\ pc[p] = "idle" /\ calls < MaxUpdates /\ Alone(p)
       /\ \E f \in RxFrames :
            /\ calls' = calls + 1
            /\ ipc_wwan_receive(p, f)
            /\ UNCHANGED <<snap, max_sessions, CtlState, LifeState, TaskState, CdevState>>
    \/ StatsSteps(p, Alone(p))
    \/ StatStep(Alone(p)) /\ rx_deliver(p)

\* RxSpec: payloads arrive one at a time; a receive that has started is
\* run to its end (it runs in the transport's tasklet, which is not
\* suspended for ever)
RxSpec ==
    /\ InitRx
    /\ [][\E p \in Receivers : RxNext(p)]_vars
    /\ \A p \in Receivers : WF_vars(pc[p] # "idle" /\ RxNext(p))

\* DeinitSpec: ipc_wwan_deinit on a device with any of the tables of
\* RxTables, or on the device ipc_wwan_init could not register (it has no
\* sessions); a1 is the context that runs it
\* a step of the teardown outside the table
LifeStep ==
    UNCHANGED <<TableState, calls, snap, max_sessions, CtlState, StatsState,
                TaskState, CdevState>>

NextDeinit ==
    \/ LifeStep /\ ipc_wwan_deinit
    \/ /\ unregister_kill_vid("a1")
       /\ UNCHANGED <<calls, snap, max_sessions, CtlState, StatsState,
                      TaskState, CdevState>>
    \/ InStep(TRUE) /\ ipc_wwan_get_vlan_devs_nr("a1")
    \/ InStep(TRUE) /\ rm_check("a1")
    \/ InStep(TRUE) /\ rm_lock("a1")
    \/ InStep(TRUE) /\ rm_close("a1")
    \/ InShift(TRUE, "a1") /\ rm_shift("a1")
    \/ InStep(TRUE) /\ finish("a1")
    \/ LifeStep /\ unregister_done("a1")
    \/ LifeStep /\ deinit_free

InitDeinit ==
    /\ is_registered \in BOOLEAN
    /\ \E t \in RxTables : (is_registered \/ t.nr = 0) /\ InitLive(t)
    /\ InitOther(MaxSessions)

DeinitSpec == InitDeinit /\ [][NextDeinit]_vars

\* TaskSpec: two contexts send tasks while the tasklet runs its handler.
\* The tasks: a synchronous call whose func returns a positive value, a
\* synchronous call with a message whose func fails, and asynchronous
\* calls without and with a message
Tasks ==
    {[fres |-> 5, sized |-> FALSE, wait |-> TRUE],
     [fres |-> -3, sized |-> TRUE, wait |-> TRUE],
     [fres |-> 0, sized |-> FALSE, wait |-> FALSE],
     [fres |-> 0, sized |-> TRUE, wait |-> FALSE]}

\* a step of the task queue leaves the rest of the driver alone
TaskStep ==
    UNCHANGED <<TableState, calls, snap, max_sessions, CtlState, StatsState,
                LifeState, cleanup,
                CdevState>>

\* a context calls ipc_task_queue_send_task with a task of ts, the n-th
\* call at most
SendCall(ts, n) ==
    \E p \in Producers :
        /\ calls < n
        /\ calls' = calls + 1
        /\ \E t \in ts :
                ipc_task_queue_send_task(p,
                    [id |-> calls + 1, fres |-> t.fres,
                     sized |-> t.sized, wait |-> t.wait])
        /\ UNCHANGED <<TableState, snap, max_sessions, CtlState,
                       StatsState, LifeState, cleanup,
                CdevState>>

\* the steps of the senders
SenderSteps ==
    \/ \E p \in Producers : TaskStep /\ add_task(p)
    \/ \E p \in Producers : TaskStep /\ add_task_schedule(p)
    \/ \E p \in Producers : TaskStep /\ add_task_wait(p)
    \/ \E p \in Producers : TaskStep /\ add_task_response(p)
    \/ \E p \in Producers : TaskStep /\ send_task_return(p)
    \/ \E p \in Producers : TaskStep /\ send_task_finish(p)

\* the steps of the tasklet
HandlerSteps ==
    \/ TaskStep /\ handler_start
    \/ TaskStep /\ handler_loop
    \/ TaskStep /\ handler_run
    \/ TaskStep /\ handler_release

TaskSteps == SenderSteps \/ HandlerSteps

NextTask == SendCall(Tasks, MaxTasks) \/ TaskSteps

\* the task queue after ipc_task_queue_init, the table allocated
InitTask == Init /\ alloc_ok = TRUE

TaskSpec == InitTask /\ [][NextTask]_vars

\* CleanupSpec: TaskSpec with ipc_task_queue_deinit.  The queue is taken
\* down while the tasklet does not run and no sender is inside
\* ipc_task_queue_add_task before its wait; afterwards no task is sent and
\* the tasklet does not start
CleanupStep ==
    UNCHANGED <<TableState, calls, snap, max_sessions, CtlState, StatsState,
                LifeState, CdevState>>

DeinitAllowed ==
    /\ tasklet.pc = "idle"
    /\ \A p \in Producers : snd[p].pc \notin {"add", "schedule"}

NextCleanup ==
    \/ cleanup.pc = "none" /\ SendCall(Tasks, MaxTasks)
    \/ SenderSteps
    \/ cleanup.pc = "none" /\ HandlerSteps
    \/ CleanupStep /\ DeinitAllowed /\ ipc_task_queue_deinit
    \/ CleanupStep /\ ipc_task_queue_cleanup

CleanupSpec == InitTask /\ [][NextCleanup]_vars

\* CdevSpec: two contexts open and release the two character devices
CdevStep ==
    UNCHANGED <<TableState, calls, snap, max_sessions, CtlState, StatsState,
                LifeState, TaskState>>

NextCdev ==
    \/ \E p \in Users, d \in Cdevs : CdevStep /\ ipc_sio_fop_open(p, d)
    \/ \E p \in Users : CdevStep /\ open_test(p)
    \/ \E p \in Users : CdevStep /\ open_channel(p)
    \/ \E p \in Users : CdevStep /\ open_attach(p)
    \/ \E p \in Users : CdevStep /\ ipc_sio_fop_release(p)
    \/ \E p \in Users : CdevStep /\ fop_return(p)

CdevSpec == InitTask /\ [][NextCdev]_vars

\* OrderSpec: the same contexts with tasks without a message, a
\* synchronous and an asynchronous call, one more than the queue has
\* elements, so that the queue runs full and an element is used again
OrderTasks ==
    {[fres |-> 5, sized |-> FALSE, wait |-> TRUE],
     [fres |-> 0, sized |-> FALSE, wait |-> FALSE]}

NextOrder == SendCall(OrderTasks, IPC_THREAD_QUEUE_SIZE + 1) \/ TaskSteps

OrderSpec == InitTask /\ [][NextOrder]_vars

\* ------------------------------------------------------------------
\* The lookup as one read of the table: the first index below
\* vlan_devs_nr whose vlan_id is t, -EINVAL when there is none or no table
LookupIdx(t) ==
    IF alloc_ok /\ \E j \in 0 .. (vlan_devs_nr - 1) : vlan_devs[j].vlan_id = t
    THEN CHOOSE j \in 0 .. (vlan_devs_nr - 1) :
            /\ vlan_devs[j].vlan_id = t
            /\ \A k \in 0 .. (j - 1) : vlan_devs[k].vlan_id # t
    ELSE -EINVAL

AddDone(p) == pc[p] = "done" /\ op[p] = "add"
RemoveDone(p) == pc[p] = "done" /\ op[p] = "remove"

\* a vid for which ipc_wwan_vlan_rx_add_vid creates a session
SessionVid(v) ==
    v # WWAN_ROOT_VLAN_TAG /\ v < VidLimit /\ v # IPC_WWAN_DSS_ID_4

\* the operation that is at "done" left the table, the count and the
\* transport's channels as they were when it started
TableUnchanged ==
    /\ vlan_devs = snap.devs
    /\ vlan_devs_nr = snap.nr
    /\ assigned = snap.assigned

\* C1 (Spec): a frame of a session T that is live from the start of the
\* transmit to the hand-off, handed over while the removal of another
\* session is under way or has just succeeded, is passed with a channel id
\* that add bound to T.
C1_TransmitKeepsChannel ==
    \A p \in Senders :
        (/\ sent # NoSend
         /\ b0[p] # {}
         /\ sent.bound = b0[p]
         /\ sent.removing # {}
         /\ sent.tag \notin sent.removing)
        => sent.ch \in b0[p]

\* C2 (Spec): a frame of a session T that was live when the transmit
\* started, handed over while remove(T) is under way or has succeeded, is
\* passed with the channel id that was bound to T (the other outcome,
\* UnknownSession, hands nothing over).
C2_TransmitDuringRemove ==
    \A p \in Senders :
        (/\ sent # NoSend
         /\ b0[p] # {}
         /\ sent.tag \in sent.removing)
        => sent.ch \in b0[p]

\* C3 (AdminSpec): after two concurrent removes of distinct tags, each bound
\* to exactly one channel when its remove started, have both returned 0,
\* neither tag is in the table and the channel of each has been closed.
C3_ConcurrentRemoves ==
    (/\ \A p \in Admins :
            RemoveDone(p) /\ ret[p] = 0 /\ vid[p] # WWAN_ROOT_VLAN_TAG
                /\ Cardinality(b0[p]) = 1
     /\ vid["a1"] # vid["a2"])
    => \A p \in Admins : LookupIdx(vid[p]) < 0 /\ BoundTo(vid[p]) = {}

\* the operation that is at "done" left the count, the live slots and the
\* transport's channels as they were when it started
LiveUnchanged ==
    /\ vlan_devs_nr = snap.nr
    /\ \A j \in 0 .. (vlan_devs_nr - 1) : vlan_devs[j] = snap.devs[j]
    /\ assigned = snap.assigned

\* the table the operation started on held no tag twice
NoDupSnap ==
    \A j, k \in 0 .. (snap.nr - 1) :
        j # k => snap.devs[j].vlan_id # snap.devs[k].vlan_id

\* the table the operation started on did not hold tag v
FreshVid(v) == \A j \in 0 .. (snap.nr - 1) : snap.devs[j].vlan_id # v

\* C4 (SeqSpec): an add of a session vid that is not in the table, on a
\* table without duplicate tags, fails and changes nothing when the table
\* holds max_sessions entries, and is accepted in every other state when
\* the channel could be opened.
C4_CapacityExceeded ==
    \A p \in Admins :
        (AddDone(p) /\ alloc_ok /\ SessionVid(vid[p])
            /\ NoDupSnap /\ FreshVid(vid[p]))
        => /\ snap.nr = max_ip_devs => (ret[p] < 0 /\ LiveUnchanged)
           /\ (snap.nr # max_ip_devs /\ assigned # snap.assigned)
                => ret[p] = 0

\* C5 (SeqSpec): between operations no two live slots hold the same tag.
C5_UniqueTags ==
    (\A p \in Procs : pc[p] = "idle")
    => \A j, k \in 0 .. (vlan_devs_nr - 1) :
          j # k => vlan_devs[j].vlan_id # vlan_devs[k].vlan_id

\* C6 (Spec): in every state every slot below vlan_devs_nr has a channel
\* id >= 0.
C6_LiveChannelValid ==
    \A j \in 0 .. (vlan_devs_nr - 1) : vlan_devs[j].ch_id >= 0

\* C7 (SeqSpec): a remove that returned 0, on a table without duplicate
\* tags, has decremented the count by one and every slot below the new
\* count holds what the next surviving slot held before, in the same order.
C7_RemoveCompacts ==
    \A p \in Admins :
        (RemoveDone(p) /\ ret[p] = 0 /\ vid[p] # WWAN_ROOT_VLAN_TAG
            /\ NoDupSnap)
        => /\ vlan_devs_nr = snap.nr - 1
           /\ \A j \in 0 .. (vlan_devs_nr - 1) :
                vlan_devs[j] = snap.devs[IF j < idx[p] THEN j ELSE j + 1]

\* C8 (SeqSpec): after an add of a session vid that found a free slot and
\* returned 0, the lookup of the vid gives a slot whose channel id is the
\* one the transport returned to this add.
C8_AddThenLookup ==
    \A p \in Admins :
        (AddDone(p) /\ ret[p] = 0 /\ alloc_ok /\ SessionVid(vid[p])
            /\ snap.nr >= 0 /\ snap.nr < max_devs)
        => /\ LookupIdx(vid[p]) >= 0
           /\ assigned \ snap.assigned
                = {<<vid[p], vlan_devs[LookupIdx(vid[p])].ch_id>>}

\* C9 (SeqSpec): after a remove that returned 0 the lookup of its tag finds
\* nothing.
C9_RemoveThenLookup ==
    \A p \in Admins :
        (RemoveDone(p) /\ ret[p] = 0 /\ vid[p] # WWAN_ROOT_VLAN_TAG)
        => LookupIdx(vid[p]) < 0

\* C10 as claimed (SeqSpec): an add of tag 0 or of a tag >= 512 returns a
\* failure and changes nothing.
C10_InvalidTagFails ==
    \A p \in Admins :
        (AddDone(p) /\ (vid[p] = WWAN_ROOT_VLAN_TAG \/ vid[p] >= VidLimit))
        => ret[p] < 0 /\ TableUnchanged

\* C10 as amended (SeqSpec): an add of a tag >= 512 returns -EINVAL; an add
\* of tag 0 returns 0, or -EINVAL when there is no table; in both cases no
\* channel is opened and the table and the count are unchanged.
C10_InvalidTagIgnored ==
    \A p \in Admins :
        (AddDone(p) /\ (vid[p] = WWAN_ROOT_VLAN_TAG \/ vid[p] >= VidLimit))
        => /\ ret[p] = IF vid[p] >= VidLimit \/ ~alloc_ok THEN -EINVAL ELSE 0
           /\ TableUnchanged

\* an add of the out-of-range tag 512 has returned, on a table that holds
\* a session
C10_Witness ==
    \E p \in Admins :
        AddDone(p) /\ vid[p] = VidLimit /\ ret[p] = -EINVAL /\ snap.nr > 0

\* all contexts are between two operations
AllIdle == \A p \in Procs : pc[p] = "idle"

\* C11 (SeqSpec): between operations the tag of every live slot is in
\* 1..255 or in 257..511; tag 0 and tag 256 occupy no live slot.
C11_TagRanges ==
    AllIdle
    => \A j \in 0 .. (vlan_devs_nr - 1) :
          IsIpTag(vlan_devs[j].vlan_id) \/ IsCtrlTag(vlan_devs[j].vlan_id)

\* the lookup of tag t on the table the operation started on: the first
\* live slot that holds t, -EINVAL when there is none
SnapLookup(t) ==
    IF alloc_ok /\ \E j \in 0 .. (snap.nr - 1) : snap.devs[j].vlan_id = t
    THEN CHOOSE j \in 0 .. (snap.nr - 1) :
            /\ snap.devs[j].vlan_id = t
            /\ \A k \in 0 .. (j - 1) : snap.devs[k].vlan_id # t
    ELSE -EINVAL

\* C12 (SeqSpec): a remove (ipc_wwan_remove_vlan, which is called for every
\* vid but 0), on a table without duplicate tags, of a tag that no live
\* slot holds, or whose slot holds a channel id < 0, returns -EINVAL, calls
\* no close and leaves the table and the count as they were.
C12_RemoveFails ==
    \A p \in Admins :
        (/\ RemoveDone(p) /\ vid[p] # WWAN_ROOT_VLAN_TAG /\ NoDupSnap
         /\ \/ SnapLookup(vid[p]) < 0
            \/ snap.devs[SnapLookup(vid[p])].ch_id < 0)
        => ret[p] = -EINVAL /\ TableUnchanged

\* a transmit has returned
TxDone(p) == pc[p] = "done" /\ op[p] = "transmit"

\* the frame of the transmit has been handed to imem_sys_wwan_transmit
Handed == sent # NoSend

\* ipc_wwan_pull_header returned a header size, so the header is stripped
Stripped == skb.header_size > 0

\* the test after the lookup passed: the index is inside the table and the
\* slot holds a channel id >= 0
Resolved(p) ==
    /\ idx[p] >= 0 /\ idx[p] < max_devs
    /\ vlan_devs[idx[p]].ch_id >= 0

\* the class by content, as ipc_wwan_receive sniffs it: IP when the first
\* nibble of the payload is 4 or 6
PayloadIsIp(f) == f.nibble \in {4, 6}

\* tag t is in 1..255 with an IP frame or in 257..511 with a non-IP frame
InClass(t, ip) == (t \in 1 .. 255 /\ ip) \/ (t \in 257 .. 511 /\ ~ip)

\* C13 as stated (TxSpec), the class of a frame being that of its payload's
\* first nibble: every frame handed to the transport has a tag in 1..255
\* with IP payload or a tag in 257..511 with non-IP payload, and a frame
\* that got through the header and session steps with a payload class that
\* does not match its tag fails with -EXDEV, is released and is not handed
\* over.
C13_PayloadClass ==
    /\ Handed => InClass(sent.tag, PayloadIsIp(skb.f))
    /\ \A p \in Senders :
          (/\ TxDone(p) /\ Stripped /\ Resolved(p)
           /\ ~InClass(vid[p], PayloadIsIp(skb.f)))
          => ret[p] = -EXDEV /\ ~Handed /\ skb.freed = 1

\* C13 amended (TxSpec): the same with the class of a frame being the one
\* the EtherType of its link-layer header declares: every frame handed to
\* the transport has a tag in 1..255 and an IP EtherType or a tag in
\* 257..511 and another EtherType, and a frame that got through the header
\* and session steps with an EtherType that does not match its tag fails
\* with -EXDEV, is released once and is not handed over.
C13_EtherTypeClass ==
    /\ Handed => InClass(sent.tag, IsIpProto(skb.f))
    /\ \A p \in Senders :
          (/\ TxDone(p) /\ Stripped /\ Resolved(p)
           /\ ~InClass(vid[p], IsIpProto(skb.f)))
          => ret[p] = -EXDEV /\ ~Handed /\ skb.freed = 1

\* a frame of the live IP session 1 with another EtherType, whose payload
\* starts with nibble 4, has failed with -EXDEV
C13_Witness ==
    \E p \in Senders :
        /\ TxDone(p) /\ Stripped /\ Resolved(p)
        /\ vid[p] = 1 /\ skb.f.proto = "other" /\ skb.f.nibble = 4
        /\ ret[p] = -EXDEV /\ ~Handed

\* the transport took the frame it was handed
TransportAccepted == Handed /\ skb.tr = 0

\* C14 as stated (TxSpec): a frame whose stripped payload starts with
\* nibble 4 and whose tag resolves to a live IP-data session is handed over
\* and Accepted when the transport accepts it; the same frame with the tag
\* of a live control session fails with -EXDEV.
C14_NibbleClass ==
    \A p \in Senders :
        (TxDone(p) /\ Stripped /\ Resolved(p) /\ skb.f.nibble = 4)
        => /\ IsIpTag(vid[p])
              => Handed /\ (TransportAccepted => ret[p] = NETDEV_TX_OK)
           /\ IsCtrlTag(vid[p]) => ret[p] = -EXDEV /\ ~Handed

\* C14 amended (TxSpec): the class is that of the EtherType: a frame with
\* an IP EtherType whose tag resolves to a live IP-data session is handed
\* over and Accepted when the transport accepts it, whatever its payload
\* starts with; the same frame with the tag of a live control session
\* fails with -EXDEV and is not handed over.
C14_EtherTypeDecides ==
    \A p \in Senders :
        (/\ TxDone(p) /\ Stripped /\ Resolved(p)
         /\ skb.f.proto \in {"ip", "ipv6"})
        => /\ IsIpTag(vid[p])
              => Handed /\ (TransportAccepted => ret[p] = NETDEV_TX_OK)
           /\ IsCtrlTag(vid[p]) => ret[p] = -EXDEV /\ ~Handed

\* an IP frame of the live IP session 1 whose payload starts with nibble 4
\* has been accepted
C14_Witness ==
    \E p \in Senders :
        /\ TxDone(p) /\ Resolved(p) /\ vid[p] = 1
        /\ skb.f.proto = "ip" /\ skb.f.nibble = 4
        /\ TransportAccepted /\ ret[p] = NETDEV_TX_OK

\* the transmit ended on a discard path: every result but accepted and busy
Discarded(p) ==
    TxDone(p) /\ (~Handed \/ ret[p] \notin {NETDEV_TX_OK, NETDEV_TX_BUSY})

\* C15 (TxSpec): when transmit has discarded a frame, the sk_buff the
\* caller submitted has been released exactly once, and so has the aligned
\* copy when one was made.
C15_ReleasedOnce ==
    \A p \in Senders :
        Discarded(p)
        => /\ skb.freed = 1
           /\ skb.new = "live" => skb.new_freed = 1

\* the sk_buff the caller submitted is as it was submitted: the header is
\* in front of the payload again and nothing has released it
AsSubmitted == skb.data = 0 /\ skb.len = skb.f.len /\ skb.freed = 0

\* C16 (TxSpec): when transmit has handed a frame to the transport, a
\* result of 0 is reported as NETDEV_TX_OK and the frame is not released;
\* the retry signal is reported as NETDEV_TX_BUSY with the stripped header
\* back on the caller's frame and the frame not released; any other result
\* is reported as -EIO and the frame is released.
C16_ResultMapping ==
    \A p \in Senders :
        (TxDone(p) /\ Handed)
        => IF skb.tr = 0
           THEN ret[p] = NETDEV_TX_OK /\ skb.freed = 0
           ELSE IF skb.tr = TxRetry
           THEN ret[p] = NETDEV_TX_BUSY /\ AsSubmitted
           ELSE ret[p] = -EIO /\ skb.freed = 1

\* C17 (TxSpec): when transmit reports NETDEV_TX_BUSY, the sk_buff left
\* with the caller is the one submitted, with its header in front of the
\* payload again and not released, for IP frames and for control frames,
\* realigned or not.
C17_BusyRoundTrip ==
    \A p \in Senders :
        (TxDone(p) /\ Handed /\ ret[p] = NETDEV_TX_BUSY) => AsSubmitted

\* C18 (TxSpec): a frame with the root tag 0 is not handed to the
\* transport, is released once, and the value transmit returns for it is no
\* error code (it is not negative).
C18_RootSilent ==
    \A p \in Senders :
        (TxDone(p) /\ vid[p] = WWAN_ROOT_VLAN_TAG)
        => ~Handed /\ skb.freed = 1 /\ ret[p] >= 0

\* C19 (Spec): a frame is handed to the transport only with its header
\* stripped and with a channel id >= 0 that the transport has open for the
\* frame's tag at the hand-off; a transmit of a frame too short for its
\* header, or whose lookup found no slot, returns -EINVAL and hands nothing
\* over.
C19_ForwardOnlyResolved ==
    /\ Handed => Stripped /\ sent.ch >= 0 /\ sent.ch \in sent.bound
    /\ \A p \in Senders :
          (/\ TxDone(p) /\ vid[p] # WWAN_ROOT_VLAN_TAG
           /\ (HeaderSize(skb.f) = 0 \/ idx[p] < 0))
          => ret[p] = -EINVAL /\ ~Handed

\* a select_queue has returned
QueueDone(p) == pc[p] = "done" /\ op[p] = "select_queue"

\* C20 (TxSpec): for a frame with a tag T in 1..255, select_queue returns T
\* when T <= max_ip_devs and the invalid queue 0xFFFF otherwise, in every
\* state of the table, and leaves the table as it was.
C20_SelectQueueIp ==
    \A p \in Senders :
        (QueueDone(p) /\ vid[p] \in 1 .. 255)
        => /\ ret[p] = IF vid[p] <= max_ip_devs THEN vid[p] ELSE InvalidTxq
           /\ TableUnchanged

\* select_queue has returned the invalid queue for tag 255, which is in the
\* IP range and above max_ip_devs, on a table that holds a session
C20_Witness ==
    \E p \in Senders :
        /\ QueueDone(p) /\ vid[p] = 255 /\ vid[p] > max_ip_devs
        /\ ret[p] = InvalidTxq /\ vlan_devs_nr > 0

\* C21 (QueueSpec): for a frame with a tag in 257..511 or with tag 0,
\* select_queue returns queue 0, whatever max_sessions the device was set
\* up with.
C21_SelectQueueDefault ==
    \A p \in Senders :
        (QueueDone(p) /\ (vid[p] \in 257 .. 511 \/ vid[p] = 0))
        => ret[p] = WWAN_DEFAULT_TXQ

\* the last call was set_flow_control for the session with tag t
FlowDone(t) == req.op = "flowctrl" /\ req.arg = t - IPC_MEM_VLAN_TO_SESSION

\* C22 (CtlSpec): for every session tag T for which select_queue returns
\* a valid queue, set_flow_control(T - 1, on) leaves exactly that queue
\* stopped (on) or runnable (off) and no other queue changed.
C22_FlowControlOnSelectedQueue ==
    \A t \in 1 .. IMEM_WWAN_CTRL_VLAN_ID_END :
        (FlowDone(t) /\ TxQueue(t) # InvalidTxq)
        => /\ queue_stopped[TxQueue(t)] = req.on
           /\ \A q \in QueueCells \ {TxQueue(t)} :
                 queue_stopped[q] = old.stopped[q]

C24_UpdateStats ==
    \A p \in Receivers :
        (pc[p] = "done" /\ op[p] = "update_stats" /\ LookupIdx(vid[p]) >= 0)
        => LET j == LookupIdx(vid[p])
               n == upd[p].len
               plus(c) ==
                   IF upd[p].tx
                   THEN [c EXCEPT !.tx_packets = @ + 1, !.tx_bytes = @ + n]
                   ELSE [c EXCEPT !.rx_packets = @ + 1, !.rx_bytes = @ + n]
           IN  /\ dev_stats[j] = plus(stat_old.dev[j])
               /\ root_stats = plus(stat_old.root)
               /\ \A m \in Mem \ {j} : dev_stats[m] = stat_old.dev[m]

\* C25 (StatsSpec): whenever no update is under way, the counters of every
\* slot and of the root device are the sums of the updates that were
\* applied, also after two contexts updated two different sessions at the
\* same time.
C25_NoLostUpdate ==
    (\A p \in Receivers : pc[p] \in {"idle", "done"})
    => /\ dev_stats = stat_sum.dev
       /\ root_stats = stat_sum.root

\* C26 (RxSpec): the EtherType receive writes is ETH_P_802_3 for every
\* payload of the control class (dss), whatever its first nibble, and for
\* a payload of the other class ETH_P_IP for nibble 4, ETH_P_IPV6 for
\* nibble 6 and ETH_P_802_3 otherwise.
C26_ReceiveEtherType ==
    \A p \in Receivers :
        rx[p].h_proto # "unset"
        => LET f == rx[p].f
           IN  /\ f.dss => rx[p].h_proto = "802_3"
               /\ (~f.dss /\ f.nibble = 4) => rx[p].h_proto = "ip"
               /\ (~f.dss /\ f.nibble = 6) => rx[p].h_proto = "ipv6"
               /\ (~f.dss /\ f.nibble \notin {4, 6})
                    => rx[p].h_proto = "802_3"

\* a control-class payload whose first nibble is 4 was delivered as
\* ETH_P_802_3
C26_Witness ==
    \E p \in Receivers :
        /\ pc[p] = "done" /\ op[p] = "receive"
        /\ rx[p].f.dss /\ rx[p].f.nibble = 4
        /\ rx[p].h_proto = "802_3" /\ rx[p].delivered = 1

\* C27 (RxSpec): a receive of a payload tagged for a live session has, when
\* it returns, counted the payload in that session's and the root device's
\* rx counters before it delivered it (once), and returned 0 whatever
\* netif_rx_ni reported; and every receive that has started returns.
C27_ReceiveCountsThenDelivers ==
    /\ [](\A p \in Receivers :
            (/\ pc[p] = "done" /\ op[p] = "receive"
             /\ rx[p].f.data /\ rx[p].f.tagged
             /\ LookupIdx(vid[p]) >= 0)
            => LET j == LookupIdx(vid[p])
                   plus(c) == [c EXCEPT !.rx_packets = @ + 1,
                                        !.rx_bytes = @ + upd[p].len]
               IN  /\ ret[p] = 0
                   /\ rx[p].delivered = 1 /\ rx[p].counted
                   /\ dev_stats[j] = plus(stat_old.dev[j])
                   /\ root_stats = plus(stat_old.root))
    /\ \A p \in Receivers :
            (op[p] = "receive" /\ pc[p] # "done") ~> (pc[p] = "done")

\* C28 (CtlSpec): an MTU change to a value in 68..1048576 returns 0 and
\* sets the MTU to that value; a change to any other value returns -EINVAL
\* and leaves the MTU as it was.
C28_MtuRange ==
    req.op = "change_mtu"
    => IF req.arg >= 68 /\ req.arg <= 1048576
       THEN req.res = 0 /\ mtu = req.arg
       ELSE req.res = -EINVAL /\ mtu = old.mtu

\* after the MTU was set to the lower limit, a request one above the upper
\* limit has failed and the MTU is still the lower limit
C28_Witness ==
    /\ req.op = "change_mtu" /\ req.arg = 1048577 /\ req.res = -EINVAL
    /\ mtu = 68 /\ old.mtu = 68

\* C29 (DeinitSpec): deinit frees the session table only after the host
\* stack has detached the root device, and once the table is freed no
\* channel that add opened is still open, whatever sessions were live when
\* deinit was called.
C29_DeinitReleasesAll ==
    life \in {"table_freed", "freed"}
    => /\ pending = {}
       /\ \A p \in Procs : pc[p] = "idle"
       /\ assigned = {}

\* C30 (TaskSpec): a synchronous send whose func was called returns what
\* func returned, and a send returns -1 only when its task was not accepted
\* into the queue.
C30_SendTaskResult ==
    \A p \in Producers :
        snd[p].pc = "done"
        => LET t == snd[p].task
               called == \E k \in 1 .. Len(tlog.ran) : tlog.ran[k] = t.id
               accepted ==
                   \E k \in 1 .. Len(tlog.accepted) : tlog.accepted[k] = t.id
           IN  /\ (t.wait /\ called) => snd[p].ret = t.fres
               /\ snd[p].ret = -1 => ~accepted

\* C31 (SeqSpec): in every state the session count lies in 0 .. max_devs
\* and no access of add, remove (every iteration of its compaction loop
\* included) or the lookup has touched a slot outside 0 .. max_devs - 1.
C31_TableBounds ==
    /\ vlan_devs_nr >= 0
    /\ vlan_devs_nr <= max_devs
    /\ ~oob

\* C32 (SeqSpec): an add of a session vid whose channel open failed (the
\* transport bound no channel) returns -ENODEV, leaves the count, the live
\* slots and the transport's channels as they were, and changes nothing
\* but the channel id of the first free slot, which the next add
\* overwrites before it reads it.
C32_OpenFailure ==
    \A p \in Admins :
        (AddDone(p) /\ alloc_ok /\ SessionVid(vid[p])
            /\ assigned = snap.assigned)
        => /\ ret[p] = -ENODEV
           /\ LiveUnchanged
           /\ vlan_devs = [snap.devs EXCEPT ![snap.nr].ch_id = -1]

\* an add that follows a live session returned -ENODEV after a failed open
C32_Witness ==
    /\ AddDone("a1") /\ SessionVid(vid["a1"]) /\ alloc_ok
    /\ assigned = snap.assigned
    /\ ret["a1"] = -ENODEV
    /\ snap.nr = 1 /\ vlan_devs_nr = 1

\* C33 (TxSpec): when a transmit that replaced a misaligned control frame
\* by an aligned copy has returned, the copy is the sk_buff the transport
\* was handed and the sk_buff the caller submitted has been released
\* exactly once.
C33_AlignedCopyOwnership ==
    \A p \in Senders :
        (TxDone(p) /\ skb.new = "live")
        => /\ skb.passed = "new"
           /\ skb.freed = 1

\* FlowSpec: the VLAN filter calls of one administrative context and, while
\* it is idle, flow control and its query for the sessions of the table
FlowVids == {1, 2}
FlowSessions == {0, 1}

\* a flow-control call for session id: its tag has a slot in the table
FlowCall(id) ==
    /\ CtlCall
    /\ pc["a1"] = "idle"
    /\ LookupIdx(SessionToTag(id)) >= 0

NextFlow ==
    \/ AdminCall("a1", FlowVids, TRUE, Snapshot)
    \/ AdminStep("a1", TRUE)
    \/ \E id \in FlowSessions, on \in BOOLEAN :
            FlowCall(id) /\ ipc_wwan_tx_flowctrl(id, on)
    \/ \E id \in FlowSessions : FlowCall(id) /\ ipc_wwan_is_tx_stopped(id)

FlowSpec == Init /\ [][NextFlow]_vars

\* C34 (FlowSpec): right after an add of a session tag that the table did
\* not hold has returned 0, the tx queue of the tag is not stopped,
\* whatever flow control did to the tag's earlier sessions.
C34_AddStartsRunnable ==
    (AddDone("a1") /\ ret["a1"] = 0 /\ SessionVid(vid["a1"])
        /\ FreshVid(vid["a1"]))
    => ~queue_stopped[SessionToTag(vid["a1"] - IPC_MEM_VLAN_TO_SESSION)]

\* the number of elements between q_rpos and q_wpos
QueueLen ==
    (ipc_task.q_wpos - ipc_task.q_rpos + IPC_THREAD_QUEUE_SIZE)
        % IPC_THREAD_QUEUE_SIZE

\* no sender is between its enqueue and tasklet_schedule, and the tasklet
\* neither runs nor is scheduled
Quiet ==
    /\ tasklet.pc = "idle" /\ ~tasklet.scheduled
    /\ \A p \in Producers : snd[p].pc # "schedule"

\* C35 (OrderSpec): in every state the tasks the handler has run are the
\* first of the accepted tasks in the order of their enqueue, each once;
\* every run consumed one enqueued element; the elements from q_rpos to
\* q_wpos hold the accepted tasks that the handler has not released, in
\* order (no sender has overwritten one); and once the tasklet has come to
\* rest every accepted task has been run.
C35_RunOnceInOrder ==
    /\ Len(tlog.ran) <= Len(tlog.accepted)
    /\ \A k \in 1 .. Len(tlog.ran) : tlog.ran[k] = tlog.accepted[k]
    /\ Len(tlog.ran) = Len(tlog.accepted) - QueueLen
                        + (IF tasklet.pc = "release" THEN 1 ELSE 0)
    /\ \A j \in 0 .. (QueueLen - 1) :
          ipc_task.args[(ipc_task.q_rpos + j) % IPC_THREAD_QUEUE_SIZE].func
            = tlog.accepted[Len(tlog.accepted) - QueueLen + j + 1]
    /\ Quiet => tlog.ran = tlog.accepted

\* more tasks than the queue has elements were accepted and run: an element
\* was used a second time, by both senders
C35_Witness ==
    /\ Len(tlog.ran) = IPC_THREAD_QUEUE_SIZE + 1
    /\ \A p \in Producers : snd[p].pc = "done"

\* C36 (CleanupSpec): no message copy is ever freed twice, and once the
\* tasklet has come to rest or the queue has been taken down, the copy of
\* every sender that has returned has been freed once.
C36_CopyFreedOnce ==
    /\ \A t \in 1 .. MaxTasks : tlog.freed[t] <= 1
    /\ \A p \in Producers :
          (snd[p].pc = "done" /\ snd[p].is_copy
              /\ (Quiet \/ cleanup.pc = "freed"))
          => tlog.freed[snd[p].task.id] = 1

\* an open or a release of device d is under way
InFop(d) == \E p \in Users : usr[p].dev = d /\ usr[p].pc \notin {"idle", "done"}

\* the contexts that hold an open file of device d
Holders(d) == {p \in Users : usr[p].file = d}

\* C37 (CdevSpec): at most one context holds an open file of a device, an
\* open that returned 0 made its caller that holder, and whenever no open
\* of the device is under way its IS_OPEN bit is set exactly when a context
\* holds an open file of it: after a release and after an open that failed
\* with -EIO the bit is clear.
C37_OpenFlag ==
    \A d \in Cdevs :
        /\ Cardinality(Holders(d)) <= 1
        /\ ~InFop(d) => (cdev[d].flag <=> Holders(d) # {})
        /\ \A p \in Users :
              (usr[p].pc = "done" /\ usr[p].dev = d /\ usr[p].ret = -EIO)
              => ~cdev[d].flag

====
